---- MODULE Spec2Model ----
(***************************************************************************)
(* Model of sasdata.data_util.nxsunit: the unit tables, the unit-string    *)
(* normaliser and the Converter.                                           *)
(*                                                                         *)
(* Strings are TLA+ strings (Len, \o and SubSeq act on them).  Three       *)
(* characters of the source lie outside Latin-1 and are written with       *)
(* one-character stand-ins: see CELSIUS_SIGN, FAHRENHEIT_SIGN, OHM_SIGN.   *)
(*                                                                         *)
(* Python floats are modelled by exact decimal rationals <<n, d, e>>,      *)
(* meaning (n / d) * 10^e, kept in a canonical form, so that equality of   *)
(* numbers is equality of values and rounding plays no part.               *)
(***************************************************************************)
EXTENDS Integers, Sequences, FiniteSets, TLC

-----------------------------------------------------------------------------
(* Numbers                                                                 *)

Abs(n) == IF n < 0 THEN -n ELSE n

RECURSIVE Gcd(_, _)
Gcd(a, b) == IF b = 0 THEN a ELSE Gcd(b, a % b)

RECURSIVE Pow10(_)
Pow10(k) == IF k = 0 THEN 1 ELSE 10 * Pow10(k - 1)

\* move the factors 2 and 5 of the denominator into the decimal exponent
RECURSIVE StripDen(_, _, _)
StripDen(n, d, e) ==
    IF d % 2 = 0 THEN StripDen(n * 5, d \div 2, e - 1)
    ELSE IF d % 5 = 0 THEN StripDen(n * 2, d \div 5, e - 1)
    ELSE <<n, d, e>>

\* move the factors 10 of the numerator into the decimal exponent
RECURSIVE StripNum(_, _, _)
StripNum(n, d, e) ==
    IF n % 10 = 0 THEN StripNum(n \div 10, d, e + 1) ELSE <<n, d, e>>

\* the canonical form of (n / d) * 10^e, d # 0
StripTuple(a) == StripNum(a[1], a[2], a[3])

\* n / d in lowest terms with a positive denominator, s the sign of d and
\* g the greatest common divisor
Reduce(n, d, e, s, g) == StripDen((s * n) \div g, (s * d) \div g, e)

Norm(n, d, e) ==
    IF n = 0 THEN <<0, 1, 0>>
    ELSE StripTuple(Reduce(n, d, e, IF d < 0 THEN -1 ELSE 1,
                           Gcd(Abs(n), Abs(d))))

Num(n) == Norm(n, 1, 0)
Dec(n, e) == Norm(n, 1, e)
Frac(n, d) == Norm(n, d, 0)
ZERO == <<0, 1, 0>>
ONE == <<1, 1, 0>>

\* a * b, the common factors g1 of a's numerator and b's denominator and g2
\* of b's numerator and a's denominator taken out first
NumMulCross(a, b, g1, g2) ==
    Norm((a[1] \div g1) * (b[1] \div g2),
         (a[2] \div g2) * (b[2] \div g1), a[3] + b[3])

NumMul(a, b) == NumMulCross(a, b, Gcd(Abs(a[1]), b[2]), Gcd(Abs(b[1]), a[2]))

NumInv(a) == Norm(a[2], a[1], -a[3])

NumDiv(a, b) == NumMul(a, NumInv(b))

NumNeg(a) == <<-a[1], a[2], a[3]>>

\* a + b over the exponent m and with g the common factor of the
\* denominators
NumAddOver(a, b, m, g) ==
    Norm(a[1] * Pow10(a[3] - m) * (b[2] \div g)
            + b[1] * Pow10(b[3] - m) * (a[2] \div g),
         (a[2] \div g) * b[2], m)

NumAdd(a, b) ==
    IF a[1] = 0 THEN b
    ELSE IF b[1] = 0 THEN a
    ELSE NumAddOver(a, b, IF a[3] < b[3] THEN a[3] ELSE b[3],
                    Gcd(a[2], b[2]))

NumSub(a, b) == NumAdd(a, NumNeg(b))

RECURSIVE NumPow(_, _)
NumPow(a, n) == IF n = 0 THEN ONE ELSE NumMul(a, NumPow(a, n - 1))

\* x * 10^k > y for positive integers x and y below 10^10 and k >= 0
RECURSIVE ScaledGreater(_, _, _)
ScaledGreater(x, y, k) ==
    IF x > y THEN TRUE
    ELSE IF k = 0 THEN FALSE
    ELSE IF k >= 10 THEN TRUE
    ELSE ScaledGreater(10 * x, y, k - 1)

\* a < b for two different positive numbers in canonical form
PosLess(a, b) ==
    IF a[3] < b[3]
    THEN ScaledGreater(b[1] * a[2], a[1] * b[2], b[3] - a[3])
    ELSE ~ScaledGreater(a[1] * b[2], b[1] * a[2], a[3] - b[3])

\* a < b
NumLess(a, b) ==
    IF a = b THEN FALSE
    ELSE IF a[1] <= 0 /\ b[1] >= 0 THEN TRUE
    ELSE IF a[1] >= 0 /\ b[1] <= 0 THEN FALSE
    ELSE IF a[1] > 0 THEN PosLess(a, b)
    ELSE PosLess(NumNeg(b), NumNeg(a))

-----------------------------------------------------------------------------
(* Strings                                                                 *)

\* '℃' (U+2103), '℉' (U+2109) and 'Ω' (U+2126) of the source
CELSIUS_SIGN == "¢"
FAHRENHEIT_SIGN == "£"
OHM_SIGN == "¤"

At(s, i) == SubSeq(s, i, i)

UPPERS == "ABCDEFGHIJKLMNOPQRSTUVWXYZÅÖ"
LOWERS == "abcdefghijklmnopqrstuvwxyzåö"

LowerMap ==
    [c \in {At(UPPERS, i) : i \in 1..Len(UPPERS)} |->
        At(LOWERS, CHOOSE i \in 1..Len(UPPERS) : At(UPPERS, i) = c)]

UpperMap ==
    [c \in {At(LOWERS, i) : i \in 1..Len(LOWERS)} |->
        At(UPPERS, CHOOSE i \in 1..Len(LOWERS) : At(LOWERS, i) = c)]

LowerChar(c) == IF c \in DOMAIN LowerMap THEN LowerMap[c] ELSE c
UpperChar(c) == IF c \in DOMAIN UpperMap THEN UpperMap[c] ELSE c

\* str.lower
RECURSIVE StrLower(_)
StrLower(s) ==
    IF s = "" THEN "" ELSE LowerChar(At(s, 1)) \o StrLower(SubSeq(s, 2, Len(s)))

\* str.capitalize
StrCapitalize(s) ==
    IF s = "" THEN "" ELSE UpperChar(At(s, 1)) \o StrLower(SubSeq(s, 2, Len(s)))

\* str.join
RECURSIVE StrJoin(_, _)
StrJoin(sep, xs) ==
    IF xs = <<>> THEN ""
    ELSE IF Len(xs) = 1 THEN xs[1]
    ELSE xs[1] \o sep \o StrJoin(sep, Tail(xs))

\* str.split(sep) for a one-character sep: empty pieces are kept
RECURSIVE StrSplitFrom(_, _, _, _)
StrSplitFrom(s, sep, i, cur) ==
    IF i > Len(s) THEN <<cur>>
    ELSE IF At(s, i) = sep THEN <<cur>> \o StrSplitFrom(s, sep, i + 1, "")
    ELSE StrSplitFrom(s, sep, i + 1, cur \o At(s, i))

StrSplit(s, sep) == StrSplitFrom(s, sep, 1, "")

\* str.split(): split on runs of blanks, no empty pieces
StrSplitBlank(s) == SelectSeq(StrSplit(s, " "), LAMBDA p : p # "")

\* str.strip()
RECURSIVE StrStrip(_)
StrStrip(s) ==
    IF s = "" THEN ""
    ELSE IF At(s, 1) = " " THEN StrStrip(SubSeq(s, 2, Len(s)))
    ELSE IF At(s, Len(s)) = " " THEN StrStrip(SubSeq(s, 1, Len(s) - 1))
    ELSE s

-----------------------------------------------------------------------------
(* Regular expressions (the subset of Python's re that nxsunit uses)       *)

Lit(s) == [t |-> "lit", s |-> s]
Cls(cs) == [t |-> "cls", cs |-> cs]
Opt(r) == [t |-> "opt", r |-> r]
Cat(rs) == [t |-> "cat", rs |-> rs]
Alt(rs) == [t |-> "alt", rs |-> rs]

\* The positions at which a match of r starting at position i of s can end
\* (index of the first character after the match), in the order in which
\* Python's backtracking matcher tries them: the first is the match taken.
RECURSIVE Ends(_, _, _, _)
RECURSIVE EndsCat(_, _, _, _)
RECURSIVE EndsAlt(_, _, _, _)
RECURSIVE EndsEach(_, _, _, _)

Ends(r, s, i, ic) ==
    CASE r.t = "lit" ->
            IF i + Len(r.s) - 1 <= Len(s)
               /\ (IF ic THEN StrLower(SubSeq(s, i, i + Len(r.s) - 1))
                                = StrLower(r.s)
                         ELSE SubSeq(s, i, i + Len(r.s) - 1) = r.s)
            THEN <<i + Len(r.s)>> ELSE <<>>
      [] r.t = "cls" ->
            IF i <= Len(s)
               /\ (IF ic THEN LowerChar(At(s, i)) \in {LowerChar(c) : c \in r.cs}
                         ELSE At(s, i) \in r.cs)
            THEN <<i + 1>> ELSE <<>>
      [] r.t = "opt" -> Ends(r.r, s, i, ic) \o <<i>>
      [] r.t = "cat" -> EndsCat(r.rs, s, i, ic)
      [] r.t = "alt" -> EndsAlt(r.rs, s, i, ic)

EndsCat(rs, s, i, ic) ==
    IF rs = <<>> THEN <<i>>
    ELSE EndsEach(Tail(rs), s, Ends(Head(rs), s, i, ic), ic)

EndsEach(rs, s, js, ic) ==
    IF js = <<>> THEN <<>>
    ELSE EndsCat(rs, s, Head(js), ic) \o EndsEach(rs, s, Tail(js), ic)

EndsAlt(rs, s, i, ic) ==
    IF rs = <<>> THEN <<>>
    ELSE Ends(Head(rs), s, i, ic) \o EndsAlt(Tail(rs), s, i, ic)

\* re.sub(r, repl, s) for a pattern that matches no empty string and a
\* replacement without group references
RECURSIVE ReSubFrom(_, _, _, _, _)
RECURSIVE ReSubAt(_, _, _, _, _, _)

\* the step at position i, es the ends of the matches that start there
ReSubAt(r, repl, s, i, ic, es) ==
    IF es = <<>> THEN At(s, i) \o ReSubFrom(r, repl, s, i + 1, ic)
    ELSE repl \o ReSubFrom(r, repl, s, es[1], ic)

ReSubFrom(r, repl, s, i, ic) ==
    IF i > Len(s) THEN "" ELSE ReSubAt(r, repl, s, i, ic, Ends(r, s, i, ic))

ReSub(r, repl, s, ic) == ReSubFrom(r, repl, s, 1, ic)

\* str.replace(old, new)
StrReplace(s, old, new) == ReSub(Lit(old), new, s, FALSE)

-----------------------------------------------------------------------------
(* Python dicts: the keys in insertion order, and the mapping              *)

EmptyDict == [keys |-> <<>>, map |-> <<>>]

\* {k: v}
DictOne(k, v) == [keys |-> <<k>>, map |-> (k :> v)]

DictHas(d, k) == k \in DOMAIN d.map

\* d.update(e) for a dict e: a key of d keeps its place and takes e's
\* value, the new keys follow in e's order
DictUpdate(d, e) ==
    [keys |-> d.keys \o SelectSeq(e.keys, LAMBDA k : ~DictHas(d, k)),
     map |-> e.map @@ d.map]

\* d[k] = v
DictSet(d, k, v) == DictUpdate(d, DictOne(k, v))

\* ds[lo].update(ds[lo+1]) ... .update(ds[hi]); update is associative, and
\* the halving keeps the evaluation shallow
RECURSIVE DictUpdateRange(_, _, _)
DictUpdateRange(ds, lo, hi) ==
    IF lo > hi THEN EmptyDict
    ELSE IF lo = hi THEN ds[lo]
    ELSE DictUpdate(DictUpdateRange(ds, lo, (lo + hi) \div 2),
                    DictUpdateRange(ds, ((lo + hi) \div 2) + 1, hi))

\* an empty dict updated with each dict of the list ds in turn
DictUpdateAll(ds) == DictUpdateRange(ds, 1, Len(ds))

\* dict(pairs), and d.update(pairs), for a list of (key, value) pairs
DictOf(pairs) ==
    DictUpdateAll([i \in DOMAIN pairs |-> DictOne(pairs[i][1], pairs[i][2])])

DictUpdatePairs(d, pairs) == DictUpdate(d, DictOf(pairs))

\* d.items()
DictItems(d) == [i \in DOMAIN d.keys |-> <<d.keys[i], d.map[d.keys[i]]>>]

\* {k: F(v) for k, v in d.items()}
DictMapValues(d, F(_)) ==
    [keys |-> d.keys, map |-> [k \in DOMAIN d.map |-> F(d.map[k])]]

-----------------------------------------------------------------------------
(* Module constants                                                        *)

PREFIX ==
    DictOf(<< <<"peta", Dec(1, 15)>>, <<"tera", Dec(1, 12)>>,
              <<"giga", Dec(1, 9)>>, <<"mega", Dec(1, 6)>>,
              <<"kilo", Dec(1, 3)>>, <<"deci", Dec(1, -1)>>,
              <<"centi", Dec(1, -2)>>, <<"milli", Dec(1, -3)>>,
              <<"mili", Dec(1, -3)>>, <<"micro", Dec(1, -6)>>,
              <<"nano", Dec(1, -9)>>, <<"pico", Dec(1, -12)>>,
              <<"femto", Dec(1, -15)>> >>)

SHORT_PREFIX ==
    DictOf(<< <<"P", Dec(1, 15)>>, <<"T", Dec(1, 12)>>, <<"G", Dec(1, 9)>>,
              <<"M", Dec(1, 6)>>, <<"k", Dec(1, 3)>>, <<"d", Dec(1, -1)>>,
              <<"c", Dec(1, -2)>>, <<"m", Dec(1, -3)>>, <<"u", Dec(1, -6)>>,
              <<"n", Dec(1, -9)>>, <<"p", Dec(1, -12)>>,
              <<"f", Dec(1, -15)>> >>)

-----------------------------------------------------------------------------
(* The unit-string normaliser                                              *)

Chars(s) == {At(s, i) : i \in 1..Len(s)}

RE_ANGSTROM ==  \* [ÅAa]ng(str[oö]m)?(s)?
    Cat(<<Cls({"Å", "A", "a"}), Lit("ng"),
          Opt(Cat(<<Lit("str"), Cls({"o", "ö"}), Lit("m")>>)), Opt(Lit("s"))>>)

RE_METER ==  \* (met(er|re)(s)?)
    Cat(<<Lit("met"), Alt(<<Lit("er"), Lit("re")>>), Opt(Lit("s"))>>)

RE_SECOND ==  \* sec(ond)?(s)?
    Cat(<<Lit("sec"), Opt(Lit("ond")), Opt(Lit("s"))>>)

RE_KELVIN ==  \* kel(vin)?(s)?
    Cat(<<Lit("kel"), Opt(Lit("vin")), Opt(Lit("s"))>>)

RE_CELCIUS ==  \* cel(cius)?
    Cat(<<Lit("cel"), Opt(Lit("cius"))>>)

RE_HERTZ ==  \* h(ert)?z
    Cat(<<Lit("h"), Opt(Lit("ert")), Lit("z")>>)

RE_ARBITRARY ==  \* (arb(itrary|[.]|)?( )?(units)?|a[.] ?u[.]|au[.]?|aus[.]?)
    Alt(<<Cat(<<Lit("arb"),
                Opt(Alt(<<Lit("itrary"), Cls({"."}), Lit("")>>)),
                Opt(Lit(" ")), Opt(Lit("units"))>>),
          Cat(<<Lit("a"), Cls({"."}), Opt(Lit(" ")), Lit("u"), Cls({"."})>>),
          Cat(<<Lit("au"), Opt(Cls({"."}))>>),
          Cat(<<Lit("aus"), Opt(Cls({"."}))>>)>>)

RE_UNKNOWN ==  \* (unk)(nown)?
    Cat(<<Lit("unk"), Opt(Lit("nown"))>>)

RE_COUNTS ==  \* (c)(oun)?(t)(s)?
    Cat(<<Lit("c"), Opt(Lit("oun")), Lit("t"), Opt(Lit("s"))>>)

\* [℃ÅA-Za-z_ ]
NAME_CHARS ==
    {CELSIUS_SIGN, "Å", "_", " "}
        \cup Chars("ABCDEFGHIJKLMNOPQRSTUVWXYZ")
        \cup Chars("abcdefghijklmnopqrstuvwxyz")

\* [-0-9]
EXP_CHARS == Chars("-0123456789")

\* the ends of a match of [cs]+ at position i of s, longest first
RECURSIVE RunLen(_, _, _)
RunLen(cs, s, i) ==
    IF i <= Len(s) /\ At(s, i) \in cs THEN 1 + RunLen(cs, s, i + 1) ELSE 0

\* the ends i + n, ..., i + 1 of the matches of a run of n characters
EndsOfRun(i, n) == [k \in 1..n |-> i + (n - k + 1)]

EndsPlus(cs, s, i) == EndsOfRun(i, RunLen(cs, s, i))

\* re.sub('([℃ÅA-Za-z_ ]+)([-0-9]+)', r"\1^\2", unit)
RECURSIVE SubExponentFrom(_, _)
RECURSIVE SubExponentAt(_, _, _)
RECURSIVE SubExponentGroups(_, _, _, _)

\* the match from i: group 1 ends before j, group 2 before k
SubExponentGroups(s, i, j, k) ==
    SubSeq(s, i, j - 1) \o "^" \o SubSeq(s, j, k - 1) \o SubExponentFrom(s, k)

\* the step at position i, g1 the ends of group 1 that group 2 can follow
SubExponentAt(s, i, g1) ==
    IF g1 = <<>> THEN At(s, i) \o SubExponentFrom(s, i + 1)
    ELSE SubExponentGroups(s, i, g1[1], EndsPlus(EXP_CHARS, s, g1[1])[1])

SubExponentFrom(s, i) ==
    IF i > Len(s) THEN ""
    ELSE SubExponentAt(s, i,
            SelectSeq(EndsPlus(NAME_CHARS, s, i),
                      LAMBDA j : EndsPlus(EXP_CHARS, s, j) # <<>>))

SubExponent(s) == SubExponentFrom(s, 1)

\* for prefix in all_prefixes: unit = unit.replace(prefix + "*", prefix)
\* (an empty string stays empty; the test also makes each replacement be
\* computed before the next one is started)
RECURSIVE GluePrefixes(_, _)
RECURSIVE GlueRest(_, _)

GlueRest(t, prefixes) ==
    IF t = "" THEN "" ELSE GluePrefixes(t, Tail(prefixes))

GluePrefixes(s, prefixes) ==
    IF prefixes = <<>> THEN s
    ELSE GlueRest(StrReplace(s, Head(prefixes) \o "*", Head(prefixes)),
                  prefixes)

\* number = 1 if len(ct_split) == 1 else ct_split[1]
format_number(ct_split) == IF Len(ct_split) = 1 THEN "1" ELSE ct_split[2]

\* f_item, from the pieces of item.split('^')
format_split(ct_split, sign) ==
    ct_split[1] \o
        (IF Len(ct_split) > 1 \/ sign = "-"
         THEN "^{" \o sign \o format_number(ct_split) \o "}" ELSE " ")

\* one token of the result, from one blank-separated item of a factor
format_item(item, sign) ==
    StrReplace(StrReplace(StrStrip(format_split(StrSplit(item, "^"), sign)),
                          "{{", "{"), "}}", "}")

\* the tokens of the items of one factor
format_items(items, sign) ==
    [n \in DOMAIN items |-> format_item(items[n], sign)]

RECURSIVE format_factors(_, _)
format_factors(factors, i) ==
    IF i > Len(factors) THEN <<>>
    ELSE format_items(StrSplitBlank(factors[i]), IF i > 1 THEN "-" ELSE "")
            \o format_factors(factors, i + 1)

\* unit.replace("*", " ") after the prefixes are glued
format_products(unit) ==
    StrReplace(GluePrefixes(unit, PREFIX.keys \o SHORT_PREFIX.keys), "*", " ")

\* re.sub of 'inv' and '1/' to '/'
format_inverses(unit) ==
    ReSub(Lit("1/"), "/", ReSub(Lit("inv"), "/", unit, TRUE), TRUE)

\* unit.replace('_', '').replace('(', '').replace(')', '')
format_punctuation(unit) ==
    StrReplace(StrReplace(StrReplace(unit, "_", ""), "(", ""), ")", "")

format_unit_structure(unit) ==
    format_factors(
        StrSplit(format_punctuation(format_inverses(format_products(
                     SubExponent(unit)))), "/"), 1)

\* The argument is a Python Optional[str]: <<>> is None, <<s>> the string s.
None == <<>>
Some(s) == <<s>>
PyStr(x) == IF x = None THEN "None" ELSE x[1]

\* the case-insensitive spelling substitutions, in the order of the source
SPELLINGS ==
    << <<RE_ANGSTROM, "Å">>, <<RE_METER, "m">>, <<RE_SECOND, "s">>,
       <<RE_KELVIN, "K">>, <<RE_CELCIUS, CELSIUS_SIGN>>, <<RE_HERTZ, "Hz">>,
       <<RE_ARBITRARY, "a.u.">>, <<RE_UNKNOWN, "Unk">>, <<RE_COUNTS, "cts">> >>

\* unit = re.sub(pattern, repl, unit, flags=re.IGNORECASE), one after another
RECURSIVE ReSubAll(_, _)
RECURSIVE ReSubRest(_, _)

ReSubRest(t, subs) == IF t = "" THEN "" ELSE ReSubAll(t, Tail(subs))

ReSubAll(s, subs) ==
    IF subs = <<>> THEN s
    ELSE ReSubRest(ReSub(subs[1][1], subs[1][2], s, TRUE), subs)

\* the body of standardize_units
normalise(unit) ==
    format_unit_structure(ReSubAll(PyStr(unit), SPELLINGS))

\* the unit strings the operations of the model are called with
UNIT_STRINGS ==
    {None} \cup {Some(u) : u \in
        {"", "foo", "m", "mm", "km", "A", "C", "mC", "F", "R", "K",
         "min", "minute", "minutes", "°", "second", "seconds", "sec",
         "degC", "degF", "a.u.", "1e-7 s", "s", "eV", "electronvolt",
         "milli*metre", "milli_meter", "millimeters", "Millimeter",
         "mili*metre", "Ang", "1e-7 seconds", "µAmp*hour", "A s", "C m",
         "min s", "m s", "K s", "mm min", "meter", "hertz", "kelvin",
         "coulomb", "ohm", "tesla", "gauss", "km min", "degC min", "km foo",
         "foo s", "K s min", "deg", "cts", "deg cts", "rad"}}

\* standardize_units is a function of its argument alone: its value on the
\* strings of the model is computed once
STANDARDIZED == [u \in UNIT_STRINGS |-> normalise(u)]

standardize_units(unit) ==
    IF unit \in UNIT_STRINGS THEN STANDARDIZED[unit] ELSE normalise(unit)

-----------------------------------------------------------------------------
(* The table builders                                                      *)

\* ConversionType: a float is a number <<n, d, e>>, a (scale, offset) tuple
\* is a pair of numbers
IsTuple(conv) == Len(conv) = 2

\* str(n) for a one-digit n
IntStr(n) == At("0123456789", n + 1)

\* the pairs (k + "s", v) of the (k, v) of items
plural_items(items) ==
    [i \in DOMAIN items |-> <<items[i][1] \o "s", items[i][2]>>]

\* kw.items() followed by their plurals
with_plural_items(items) == items \o plural_items(items)

build_plural_units(kw) == DictOf(with_plural_items(DictItems(kw)))

\* names.update({prefix + sep + name: scale for (prefix, scale) in ps})
prefixed_names(names, name, sep, ps) ==
    DictUpdatePairs(names,
        [i \in DOMAIN ps |-> <<ps[i][1] \o sep \o name, ps[i][2]>>])

\* names.update of the plurals of names, of the abbreviation too
with_plural_names_all(names, name, abbr) ==
    DictUpdate(names, build_plural_units(names))

\* names.update of the plurals of names, when name != abbr
with_plural_names(names, name, abbr) ==
    IF name # abbr THEN DictUpdate(names, build_plural_units(names))
    ELSE names

\* the dict `names` of one pass of the inner loop, ps the items of the
\* prefix table
metric_names_of(name, abbr, ps) ==
    with_plural_names(
        prefixed_names(
            prefixed_names(
                prefixed_names(DictOne(name, ONE), name, "", ps),
                name, "*", ps),
            name, "_", ps),
        name, abbr)

metric_names(name, abbr, items) == metric_names_of(name, abbr, DictItems(items))

\* (unit, unit.capitalize(), unit.lower(), abbr)
metric_spellings(unit, abbr) ==
    <<unit, StrCapitalize(unit), StrLower(unit), abbr>>

\* the update of the map for each of the names and each of the two prefix
\* tables
metric_units_of(names, abbr) ==
    DictUpdateAll(
        [i \in 1..8 |->
            metric_names(names[(i + 1) \div 2], abbr,
                         IF i % 2 = 1 THEN PREFIX ELSE SHORT_PREFIX)])

build_metric_units(unit, abbr) ==
    metric_units_of(metric_spellings(unit, abbr), abbr)

\* 'deg' + s, 'deg_' + s and '°' + s for each s of syms
degree_symbols(syms, conversion) ==
    [i \in 1..6 |->
        <<(CASE i % 3 = 1 -> "deg" \o syms[((i - 1) \div 3) + 1]
             [] i % 3 = 2 -> "deg_" \o syms[((i - 1) \div 3) + 1]
             [] OTHER -> "°" \o syms[((i - 1) \div 3) + 1]), conversion>>]

\* s, 'degree_' + s, 'degree' + s and 'degrees' + s for each s of names
degree_names(names, conversion) ==
    [i \in 1..16 |->
        <<(CASE i % 4 = 1 -> names[((i - 1) \div 4) + 1]
             [] i % 4 = 2 -> "degree_" \o names[((i - 1) \div 4) + 1]
             [] i % 4 = 3 -> "degree" \o names[((i - 1) \div 4) + 1]
             [] OTHER -> "degrees" \o names[((i - 1) \div 4) + 1]),
          conversion>>]

build_degree_units(name, symbol, conversion) ==
    DictUpdatePairs(DictOne(symbol, conversion),
        degree_symbols(<<symbol, StrLower(symbol)>>, conversion)
            \o degree_names(<<name, StrCapitalize(name), symbol,
                              StrLower(symbol)>>, conversion))

\* the four inverse spellings of the name sn, in the order of the source
inv_n_name(sn, k, n) ==
    CASE k = 1 -> "1/" \o sn \o "^" \o IntStr(n)
      [] k = 2 -> "inv" \o sn \o "^" \o IntStr(n)
      [] k = 3 -> sn \o "^-" \o IntStr(n)
      [] OTHER -> sn \o "^{-" \o IntStr(n) \o "}"

build_inv_n_units(names, conversion, n) ==
    DictOf([i \in 1..(4 * Len(names)) |->
              <<inv_n_name(names[((i - 1) \div 4) + 1], ((i - 1) % 4) + 1, n),
                conversion>>])

\* the inverse units of each (name, scale) of meter_map, with the scale to
\* the power n
inv_n_of_items_pow(meter_map, n) ==
    DictUpdateAll(
        [i \in DOMAIN meter_map |->
            build_inv_n_units(<<meter_map[i][1]>>,
                              NumPow(meter_map[i][2], n), n)])

\* the inverse units of each (name, scale) of meter_map
inv_n_of_items(meter_map, n) ==
    DictUpdateAll(
        [i \in DOMAIN meter_map |->
            build_inv_n_units(<<meter_map[i][1]>>,
                              NumDiv(ONE, NumPow(meter_map[i][2], n)), n)])

build_inv_n_metric_units(unit, abbr, n) ==
    inv_n_of_items(DictItems(build_metric_units(unit, abbr)), n)

\* math.pi, to the precision the model needs
PI == Frac(355, 113)

ANGSTROM_NAMES == <<"Å", "A", "Ang", "Angstrom", "ang", "angstrom">>

AMBIGUITIES ==
    DictOf(<< <<"A", "distance">>, <<"second", "time">>,
              <<"seconds", "time">>, <<"sec", "time">>, <<"°", "angle">>,
              <<"minute", "angle">>, <<"minutes", "angle">>,
              <<"min", "angle">>, <<"C", "temperature">>,
              <<"F", "temperature">>, <<"R", "temperature">> >>)

distance ==
    DictUpdatePairs(
        DictUpdate(
            DictUpdate(build_metric_units("meter", "m"),
                       build_metric_units("metre", "m")),
            build_plural_units(
                DictOf(<< <<"micron", Dec(1, -6)>>,
                          <<"Angstrom", Dec(1, -10)>> >>))),
        << <<"Å", Dec(1, -10)>>, <<"A", Dec(1, -10)>>,
           <<"Ang", Dec(1, -10)>>, <<"ang", Dec(1, -10)>> >>)

time ==
    DictUpdatePairs(
        DictUpdate(build_metric_units("second", "s"),
            build_plural_units(
                DictOf(<< <<"minute", Num(60)>>, <<"hour", Num(3600)>>,
                          <<"day", Num(24 * 3600)>>,
                          <<"week", Num(7 * 24 * 3600)>> >>))),
        << <<"sec", ONE>>, <<"min", Num(60)>>, <<"hr", Num(3600)>>,
           <<"1e-7 s", Dec(1, -7)>>, <<"1e-7 second", Dec(1, -7)>>,
           <<"1e-7 seconds", Dec(1, -7)>> >>)

angle ==
    DictSet(
        DictUpdatePairs(
            build_plural_units(
                DictOf(<< <<"degree", ONE>>, <<"minute", Frac(1, 60)>>,
                          <<"second", Frac(1, 3600)>>, <<"arcdegree", ONE>>,
                          <<"arcminute", Frac(1, 60)>>,
                          <<"arcsecond", Frac(1, 3600)>>,
                          <<"radian", NumDiv(Num(180), PI)>> >>)),
            << <<"deg", ONE>>, <<"min", Frac(1, 60)>>,
               <<"sec", Frac(1, 3600)>>, <<"arcdeg", ONE>>,
               <<"arcmin", Frac(1, 60)>>, <<"arcsec", Frac(1, 3600)>>,
               <<"angular_degree", ONE>>,
               <<"angular_minute", Frac(1, 60)>>,
               <<"angular_second", Frac(1, 3600)>>,
               <<"rad", NumDiv(Num(180), PI)>> >>),
        "°", ONE)

frequency ==
    DictUpdate(
        DictUpdate(
            DictUpdate(build_metric_units("hertz", "Hz"),
                       build_metric_units("Hertz", "Hz")),
            build_plural_units(DictOne("rpm", Frac(1, 60)))),
        build_inv_n_metric_units("second", "s", 1))

\* temperature.update(_build_degree_units('centigrade', 'C',
\*                                        temperature['degC']))
with_centigrade(t) ==
    DictUpdate(t, build_degree_units("centigrade", "C", t.map["degC"]))

\* temperature[sign] = temperature[name]
with_sign(t, sign, name) == DictSet(t, sign, t.map[name])

temperature ==
    with_sign(
        with_sign(
            DictUpdate(
                DictUpdate(
                    with_centigrade(
                        DictUpdate(
                            DictMapValues(build_metric_units("kelvin", "K"),
                                          LAMBDA v : <<v, ZERO>>),
                            build_degree_units("celcius", "C",
                                <<ONE, Dec(-27315, -2)>>))),
                    build_degree_units("fahrenheit", "F",
                        <<Frac(5, 9), NumSub(Num(32), Dec(49167, -2))>>)),
                build_degree_units("rankine", "R", <<Frac(5, 9), ZERO>>)),
            CELSIUS_SIGN, "degC"),
        FAHRENHEIT_SIGN, "degF")

charge ==
    DictSet(build_metric_units("coulomb", "C"), "microAmp*hour", Dec(36, -4))

resistance == build_metric_units("ohm", OHM_SIGN)

sld ==
    DictSet(
        DictUpdate(build_inv_n_metric_units("meter", "m", 2),
                   build_inv_n_units(ANGSTROM_NAMES, Dec(1, 20), 2)),
        "10^-6 Angstrom^-2", Dec(1, -6))

Q ==
    DictSet(
        DictUpdate(build_inv_n_metric_units("meter", "m", 1),
                   build_inv_n_units(ANGSTROM_NAMES, Dec(1, 10), 1)),
        "10^-3 Angstrom^-1", Dec(1, -3))

scattering_volume ==
    DictUpdate(build_inv_n_metric_units("meter", "m", 3),
               build_inv_n_units(ANGSTROM_NAMES, Dec(1, 10), 3))

SESANS ==
    DictOf(<< <<"Å^{-2} cm^{-1}", ONE>>, <<"A^{-2} cm^{-1}", ONE>> >>)

energy == build_metric_units("electronvolt", "eV")

magnetism ==
    DictUpdate(build_metric_units("tesla", "T"),
               DictMapValues(build_metric_units("gauss", "G"),
                             LAMBDA v : NumMul(v, Dec(1, -4))))

unknown ==
    DictOf(<< <<"None", ONE>>, <<"???", ONE>>, <<"", ONE>>, <<"A.U.", ONE>>,
              <<"a.u.", ONE>>, <<"arbitrary", ONE>>,
              <<"arbitrary units", ONE>>, <<"Counts", ONE>>,
              <<"counts", ONE>>, <<"Cts", ONE>>, <<"cts", ONE>>,
              <<"unitless", ONE>>, <<"unknown", ONE>>, <<"Unknown", ONE>>,
              <<"Unk", ONE>> >>)

\* DIMENSIONS as _build_all_units leaves it
DIMENSIONS ==
    DictOf(<< <<"distance", distance>>, <<"time", time>>, <<"angle", angle>>,
              <<"frequency", frequency>>, <<"temperature", temperature>>,
              <<"charge", charge>>, <<"resistance", resistance>>,
              <<"sld", sld>>, <<"Q", Q>>,
              <<"scattering_volume", scattering_volume>>,
              <<"SESANS", SESANS>>, <<"energy", energy>>,
              <<"magnetism", magnetism>>, <<"dimensionless", unknown>> >>)

-----------------------------------------------------------------------------
(* Python values and the outcome of a call                                 *)

PyFloat(n) == [type |-> "float", num |-> n]
PyList(xs) == [type |-> "list", items |-> xs]

Returned(v) == [returned |-> v]
Raised(e) == [raised |-> e]
IsRaised(out) == "raised" \in DOMAIN out

-----------------------------------------------------------------------------
(* class Converter                                                         *)

\* A Converter object.  units is the attribute _units; scalemap holds, for
\* each dimension, the name of the table of DIMENSIONS it refers to.
ConverterObject(units, dimension, scalemap, scalebase, scaleoffset) ==
    [units |-> units, dimension |-> dimension, scalemap |-> scalemap,
     scalebase |-> scalebase, scaleoffset |-> scaleoffset]

\* the property Converter.units
Converter_units(self) == StrJoin(" ", self.units)

\* DIMENSIONS.get(dimension, DIMENSIONS['dimensionless']), as the name of
\* the table
scalemap_of(dimension) ==
    IF DictHas(DIMENSIONS, dimension) THEN dimension ELSE "dimensionless"

\* the dicts that the names of scalemap refer to, all being DIMENSIONS
tables_named(scalemap, all) == [i \in DOMAIN scalemap |-> all.map[scalemap[i]]]

\* the dicts that self.scalemap refers to
scalemap_tables(self) == tables_named(self.scalemap, DIMENSIONS)

\* the keys of all whose table holds unit, in the order of all
dimensions_holding(unit, all) ==
    SelectSeq(all.keys, LAMBDA k : DictHas(all.map[k], unit))

\* the first of hits, 'dimensionless' when there is none (for ... else)
first_or_dimensionless(hits) ==
    IF hits = <<>> THEN "dimensionless" ELSE hits[1]

\* the first key of DIMENSIONS whose table holds unit
first_dimension(unit) ==
    first_or_dimensionless(dimensions_holding(unit, DIMENSIONS))

\* lookup_dimension without the ambiguity table
lookup_dimension_unambiguous(unit, joined) ==
    Returned(first_dimension(unit))

\* the body of the loop that looks the dimension of one unit up
lookup_dimension(unit, joined) ==
    IF DictHas(AMBIGUITIES, unit)
    THEN IF DictHas(AMBIGUITIES, joined)
         THEN Returned(AMBIGUITIES.map[joined]) ELSE Raised("KeyError")
    ELSE Returned(first_dimension(unit))

\* unit_scale as a (scale, offset) tuple
as_tuple(unit_scale) ==
    IF IsTuple(unit_scale) THEN unit_scale ELSE <<unit_scale, ZERO>>

\* fold_step that leaves the offsets out
fold_step_scale_only(base, unit_scale) ==
    <<NumMul(base[1], unit_scale[1]), base[2]>>

\* base = (base[0] * unit_scale[0], base[1] + unit_scale[1])
fold_step(base, unit_scale) ==
    <<NumMul(base[1], unit_scale[1]), NumAdd(base[2], unit_scale[2])>>

\* base after the first n pairs of zip(scalemap, units)
RECURSIVE fold_scale(_, _, _)
fold_scale(scalemap, units, n) ==
    IF n = 0 THEN <<ONE, ZERO>>
    ELSE fold_step(fold_scale(scalemap, units, n - 1),
                   as_tuple(scalemap[n].map[units[n]]))

\* zip_scale that takes lists of different lengths for incompatible
zip_scale_strict(scalemap, units, n) ==
    IF \/ Len(scalemap) # Len(units)
       \/ \E i \in 1..n : ~DictHas(scalemap[i], units[i])
    THEN Raised("ValueError")
    ELSE Returned(fold_scale(scalemap, units, n))

\* the loop over the n pairs of zip(scalemap, units)
zip_scale(scalemap, units, n) ==
    IF \E i \in 1..n : ~DictHas(scalemap[i], units[i])
    THEN Raised("ValueError")
    ELSE Returned(fold_scale(scalemap, units, n))

\* Converter_get_scale_for_units passing over the units that a table lacks
Converter_get_scale_lenient(self, units) ==
    IF /\ self.scalemap # <<>>
       /\ units # <<>>
       /\ DictHas(scalemap_tables(self)[1], units[1])
    THEN Returned(fold_scale(scalemap_tables(self), units, 1))
    ELSE Returned(<<ONE, ZERO>>)

Converter_get_scale_for_units(self, units) ==
    zip_scale(scalemap_tables(self), units,
        IF Len(self.scalemap) < Len(units)
        THEN Len(self.scalemap) ELSE Len(units))

\* the list of the dimensions looked up, or the first error of a lookup
dimensions_looked(looked) ==
    IF \E i \in DOMAIN looked : IsRaised(looked[i])
    THEN Raised("KeyError")
    ELSE Returned([i \in DOMAIN looked |-> looked[i].returned])

\* the loop over self._units, joined being self.units
lookup_dimensions(tokens, joined) ==
    dimensions_looked(
        [i \in DOMAIN tokens |-> lookup_dimension(tokens[i], joined)])

\* self.dimension: the list given, or the dimensions looked up
Converter_dimension(tokens, dimension) ==
    IF dimension # <<>> THEN Returned(dimension)
    ELSE lookup_dimensions(tokens, StrJoin(" ", tokens))

\* the object once base is computed
Converter_with_base(tokens, dims, scalemap, base) ==
    IF IsRaised(base) THEN base
    ELSE Returned(ConverterObject(tokens, dims, scalemap,
                                  base.returned[1], base.returned[2]))

\* self.scalebase and self.scaleoffset, given self.scalemap
Converter_scaled(tokens, dims, scalemap) ==
    Converter_with_base(tokens, dims, scalemap,
        Converter_get_scale_for_units(
            ConverterObject(tokens, dims, scalemap, ONE, ZERO), tokens))

\* self.scalemap, self.scalebase and self.scaleoffset, given the outcome
\* of the dimension lookup
Converter_base(tokens, dims) ==
    IF IsRaised(dims) THEN dims
    ELSE Converter_scaled(tokens, dims.returned,
            [i \in DOMAIN dims.returned |-> scalemap_of(dims.returned[i])])

\* the constructor on self._units
Converter_of_tokens(tokens, dimension) ==
    [consulted |-> dimension = <<>> /\ tokens # <<>>] @@
        Converter_base(tokens, Converter_dimension(tokens, dimension))

\* Converter_init looking the dimensions up whatever dimension is given
Converter_init_no_hint(units, dimension) ==
    Converter_of_tokens(
        standardize_units(IF units # None THEN units ELSE Some("a.u.")),
        <<>>)

\* Converter(units, dimension).  units is an Optional[str]; dimension is the
\* list given, <<>> standing for None and for an empty list alike.  The
\* field consulted tells whether AMBIGUITIES was read.
Converter_init(units, dimension) ==
    Converter_of_tokens(
        standardize_units(IF units # None THEN units ELSE Some("a.u.")),
        dimension)

\* A method's result: what the call returned or raised, the object as the
\* call leaves it, and whether the call looked a unit up in a table.
MethodResult(out, self, looked) ==
    [out |-> out, self |-> self, looked |-> looked]

\* Converter_scale_with_offset taking the target's offset off
Converter_scale_minus_offset(self, value, scale_base) ==
    IF value.type = "float"
    THEN Returned(PyFloat(
            NumSub(NumDiv(NumMul(NumSub(value.num, scale_base[2]),
                                 self.scalebase), scale_base[1]),
                   self.scaleoffset)))
    ELSE Raised("TypeError")

Converter_scale_with_offset(self, value, scale_base) ==
    IF value.type = "float"
    THEN Returned(PyFloat(
            NumSub(NumDiv(NumMul(NumAdd(value.num, scale_base[2]),
                                 self.scalebase), scale_base[1]),
                   self.scaleoffset)))
    ELSE Raised("TypeError")  \* list + float

\* value = self._scale_with_offset(value, base), base being the outcome of
\* _get_scale_for_units
scale_by(self, value, base) ==
    IF IsRaised(base) THEN MethodResult(base, self, TRUE)
    ELSE MethodResult(Converter_scale_with_offset(self, value, base.returned),
                      self, TRUE)

\* Converter_scale keeping the scale it found in the object
Converter_scale_caching(self, units, value) ==
    LET base == Converter_get_scale_for_units(self,
                    IF units # None THEN standardize_units(units)
                    ELSE <<"">>)
    IN  IF IsRaised(base) THEN MethodResult(base, self, TRUE)
        ELSE MethodResult(
                Converter_scale_with_offset(self, value, base.returned),
                [self EXCEPT !.scalebase = base.returned[1],
                             !.scaleoffset = base.returned[2]], TRUE)

Converter_scale(self, units, value) ==
    scale_by(self, value,
        Converter_get_scale_for_units(self,
            IF units # None THEN standardize_units(units) ELSE <<"">>))

\* Converter.__call__ without the early return
Converter_call_always_scales(self, value, units) ==
    Converter_scale(self, units, value)

\* Converter.__call__
Converter_call(self, value, units) ==
    IF units = None \/ units = Some("")
    THEN MethodResult(Returned(value), self, FALSE)
    ELSE Converter_scale(self, units, value)

-----------------------------------------------------------------------------
(* The stores that the methods of a Converter make into the tables         *)

\* A store table[key] = value; table is "DIMENSIONS", "AMBIGUITIES" or the
\* key of DIMENSIONS under which the dict stored into is held
Store(table, key, value) == [table |-> table, key |-> key, value |-> value]

\* d.get(key, default) as d.setdefault(key, default), which stores the
\* default under a key that d lacks
setdefault_stores(table, d, key, default) ==
    IF DictHas(d, key) THEN <<>> ELSE <<Store(table, key, default)>>

\* d.get(key, default): no store, be the key in d or not
get_stores(table, d, key, default) == <<>>

\* d[key] on a dict (DIMENSIONS = {}, AMBIGUITIES = {}, and the dicts the
\* builders return): no store, be the key in d or not
getitem_stores(table, d, key) == <<>>

\* the loop over self._units: AMBIGUITIES[self.units] for each unit that
\* is in AMBIGUITIES
RECURSIVE ambiguity_stores(_, _, _)
ambiguity_stores(tokens, joined, i) ==
    IF i > Len(tokens) THEN <<>>
    ELSE (IF DictHas(AMBIGUITIES, tokens[i])
          THEN getitem_stores("AMBIGUITIES", AMBIGUITIES, joined)
          ELSE <<>>) \o ambiguity_stores(tokens, joined, i + 1)

\* DIMENSIONS.get(dimension, DIMENSIONS['dimensionless']) for each
\* dimension of self.dimension
RECURSIVE scalemap_stores(_, _)
scalemap_stores(dims, i) ==
    IF i > Len(dims) THEN <<>>
    ELSE get_stores("DIMENSIONS", DIMENSIONS, dims[i],
                    DIMENSIONS.map["dimensionless"])
            \o scalemap_stores(dims, i + 1)

\* scalemap.get(unit) for each pair of zip(self.scalemap, units), up to
\* the first unit that its scalemap lacks
RECURSIVE scale_stores(_, _, _)
scale_stores(scalemap, units, i) ==
    IF i > Len(scalemap) \/ i > Len(units) THEN <<>>
    ELSE get_stores(scalemap[i], DIMENSIONS.map[scalemap[i]], units[i], None)
            \o (IF DictHas(DIMENSIONS.map[scalemap[i]], units[i])
                THEN scale_stores(scalemap, units, i + 1) ELSE <<>>)

\* the stores of the constructor once the dimensions are looked up
dimension_stores(tokens, dims) ==
    IF IsRaised(dims) THEN <<>>
    ELSE scalemap_stores(dims.returned, 1)
            \o scale_stores([i \in DOMAIN dims.returned |->
                                scalemap_of(dims.returned[i])], tokens, 1)

\* the stores of the constructor on self._units
token_stores(tokens, dimension) ==
    (IF dimension # <<>> THEN <<>>
     ELSE ambiguity_stores(tokens, StrJoin(" ", tokens), 1))
        \o dimension_stores(tokens, Converter_dimension(tokens, dimension))

\* the stores of Converter(units, dimension)
Converter_init_stores(units, dimension) ==
    token_stores(
        standardize_units(IF units # None THEN units ELSE Some("a.u.")),
        dimension)

\* the stores of self(value, units)
Converter_call_stores(self, value, units) ==
    IF units = None \/ units = Some("") THEN <<>>
    ELSE scale_stores(self.scalemap, standardize_units(units), 1)

\* the stores of self.get_compatible_units(): the loops read
\* scalemap.items() and append to lists of their own
Converter_get_compatible_units_stores(self) == <<>>

-----------------------------------------------------------------------------
(* Converter.get_compatible_units                                          *)

\* The characters of the unit names in the order of their code points; the
\* stand-ins of the signs for degree Celsius, degree Fahrenheit and ohm
\* take the places of these signs, after the Latin letters.
CODE_POINTS ==
    " *-./0123456789?ABCDEFGHIJKLMNOPQRSTUVWXYZ^_abcdefghijklmnopqrstuvwxyz{}°µÅö"
        \o CELSIUS_SIGN \o FAHRENHEIT_SIGN \o OHM_SIGN

\* ord(c)
ord(c) == CHOOSE i \in 1..Len(CODE_POINTS) : At(CODE_POINTS, i) = c

\* the length of the longest common prefix of two strings or two lists
common(a, b) ==
    Cardinality({k \in 1..Len(a) : k <= Len(b) /\ SubSeq(a, 1, k) = SubSeq(b, 1, k)})

\* a < b for two str whose longest common prefix has n characters
str_less_at(a, b, n) ==
    IF n = Len(a) THEN n < Len(b)
    ELSE IF n = Len(b) THEN FALSE
    ELSE ord(At(a, n + 1)) < ord(At(b, n + 1))

str_less(a, b) == str_less_at(a, b, common(a, b))

\* a < b for two lists of str whose longest common prefix has n items
list_less_at(a, b, n) ==
    IF n = Len(a) THEN n < Len(b)
    ELSE IF n = Len(b) THEN FALSE
    ELSE str_less(a[n + 1], b[n + 1])

list_less(a, b) == list_less_at(a, b, common(a, b))

\* a < b for two conversions of one kind: floats, or (scale, offset) tuples
conv_less(a, b) ==
    IF IsTuple(a)
    THEN \/ NumLess(a[1], b[1])
         \/ ~NumLess(b[1], a[1]) /\ NumLess(a[2], b[2])
    ELSE NumLess(a, b)

\* p < q for two items (conv, unit) of zip(conv_list, unique_units)
pair_less(p, q) ==
    \/ conv_less(p[1], q[1])
    \/ ~conv_less(q[1], p[1]) /\ list_less(p[2], q[2])

\* sorted() compares a float with a tuple as soon as the list holds both,
\* which raises TypeError
comparable(pairs) ==
    \A i \in DOMAIN pairs : IsTuple(pairs[i][1]) = IsTuple(pairs[1][1])

\* zip(conv_list, unique_units)
zip_lists(conv_list, unique_units) ==
    [i \in 1..Len(conv_list) |-> <<conv_list[i], unique_units[i]>>]

\* [x for _, x in pairs]
seconds(pairs) == [i \in 1..Len(pairs) |-> pairs[i][2]]

\* [x for _, x in sorted(pairs)]
sorted_seconds(pairs) ==
    seconds(SortSeq(pairs, LAMBDA p, q : pair_less(p, q)))

\* the state of the loop: the two lists, and whether sorted() has raised
compatible_state(unique_units, conv_list, raised) ==
    [unique_units |-> unique_units, conv_list |-> conv_list,
     raised |-> raised]

\* unique_units = [x for _, x in sorted(zip(conv_list, unique_units))]:
\* conv_list keeps its order
sort_units(unique_units, conv_list) ==
    IF comparable(zip_lists(conv_list, unique_units))
    THEN compatible_state(sorted_seconds(zip_lists(conv_list, unique_units)),
                          conv_list, FALSE)
    ELSE compatible_state(unique_units, conv_list, TRUE)

\* (standardize_units(item), conv) for the items of one scalemap
standardized_items(scalemap) ==
    SubSeq([i \in 1..Len(scalemap.keys) |->
                <<standardize_units(Some(scalemap.keys[i])),
                  scalemap.map[scalemap.keys[i]]>>],
           1, Len(scalemap.keys))

\* whether unit is in the list of units
unit_in(unit, units) == \E i \in 1..Len(units) : units[i] = unit

\* the items that the inner loop appends: those whose unit is neither in
\* unique_units nor the unit of an earlier item
appended_items(unique_units, items) ==
    SelectSeq(SelectSeq([i \in 1..Len(items) |-> <<i, items[i]>>],
                        LAMBDA it : \A j \in 1..(it[1] - 1) :
                                        items[j][1] # it[2][1]),
              LAMBDA it : ~unit_in(it[2][1], unique_units))

\* the lists after the inner loop has appended the items
append_items(acc, appended) ==
    sort_units(acc.unique_units \o [i \in 1..Len(appended) |-> appended[i][2][1]],
               acc.conv_list \o [i \in 1..Len(appended) |-> appended[i][2][2]])

\* one round of the outer loop: the inner loop, then the sort
compatible_step(acc, items) ==
    IF acc.raised THEN acc
    ELSE append_items(acc, appended_items(acc.unique_units, items))

\* the state after the first n scalemaps
RECURSIVE compatible_loop(_, _)
compatible_loop(tables, n) ==
    IF n = 0 THEN compatible_state(<<>>, <<>>, FALSE)
    ELSE compatible_step(compatible_loop(tables, n - 1),
                         standardized_items(tables[n]))

\* return unique_units, unless sorted() has raised
compatible_result(acc) ==
    IF acc.raised THEN Raised("TypeError") ELSE Returned(acc.unique_units)

Converter_get_compatible_units(self) ==
    compatible_result(compatible_loop(scalemap_tables(self),
                                      Len(self.scalemap)))

-----------------------------------------------------------------------------
(* class ExtensionRegistry                                                 *)

\* str.startswith, str.endswith
StartsWith(s, p) == Len(p) <= Len(s) /\ SubSeq(s, 1, Len(p)) = p
EndsWith(s, p) ==
    Len(p) <= Len(s) /\ SubSeq(s, Len(s) - Len(p) + 1, Len(s)) = p

\* d.get(k, default); also d[k] of a defaultdict for a key that d holds
DictGet(d, k, default) == IF DictHas(d, k) THEN d.map[k] ELSE default

\* unique_preserve_order(seq) of sasdata.data_util.util: the first
\* occurrence of every item, in the order of seq
unique_preserve_order(seq) ==
    seconds(SelectSeq([i \in 1..Len(seq) |-> <<i, seq[i]>>],
                      LAMBDA it : \A j \in 1..(it[1] - 1) : seq[j] # it[2]))

\* An ExtensionRegistry, and a Registry of the data loader, which adds the
\* table of the writers: both tables are a defaultdict(list)
RegistryObject(readers, writers) == [readers |-> readers, writers |-> writers]

\* ExtensionRegistry.__init__
ExtensionRegistry_init == RegistryObject(EmptyDict, EmptyDict)

\* self.readers[ext].insert(0, loader)
ExtensionRegistry_setitem(self, ext, loader) ==
    [self EXCEPT !.readers =
        DictSet(self.readers, ext,
                <<loader>> \o DictGet(self.readers, ext, <<>>))]

\* the keys of self.readers that start with '.', sorted
ExtensionRegistry_extensions(self) ==
    SortSeq(SelectSeq(self.readers.keys, LAMBDA a : StartsWith(a, ".")),
            LAMBDA a, b : str_less(a, b))

\* [ext for ext in self.extensions() if path_lower.endswith(ext)]
matching_extensions(extensions, path_lower) ==
    SelectSeq(extensions, LAMBDA ext : EndsWith(path_lower, ext))

\* extensions.sort(key=len); two extensions that end the same path have
\* different lengths
sort_by_len(extensions) ==
    SortSeq(extensions, LAMBDA a, b : Len(a) < Len(b))

\* [reader for ext in extensions for reader in table[ext]]
RECURSIVE combine(_, _)
combine(table, extensions) ==
    IF extensions = <<>> THEN <<>>
    ELSE DictGet(table, extensions[1], <<>>) \o combine(table, Tail(extensions))

ExtensionRegistry_lookup(self, path) ==
    unique_preserve_order(
        combine(self.readers,
                sort_by_len(matching_extensions(
                    ExtensionRegistry_extensions(self), StrLower(path)))))

\* A loader is a function of the program that uses the registry.  What the
\* loaders do when called is given by behaviour: a loader returns a list
\* with a data set, returns an empty list, or raises its own exception.
data_of(loader, path) == <<[file |-> path, by |-> loader]>>
exception_of(loader) == <<"LoaderError", loader>>

load_function(behaviour, loader, path) ==
    IF behaviour[loader] = "raise" THEN Raised(exception_of(loader))
    ELSE IF behaviour[loader] = "empty" THEN Returned(<<>>)
    ELSE Returned(data_of(loader, path))

\* the outcome of load: what it returns or raises, the loaders it has
\* called, in order, and whether it has opened the file
LoadResult(out, called, opened) ==
    [out |-> out, called |-> called, opened |-> opened]

\* try_loaders that raises the exception of the first loader that raised
RECURSIVE try_loaders_first_exception(_, _, _, _, _)
try_loaders_first_exception(loaders, behaviour, path, i, last_exc) ==
    IF i > Len(loaders) THEN LoadResult(Raised(last_exc), loaders, TRUE)
    ELSE IF IsRaised(load_function(behaviour, loaders[i], path))
    THEN try_loaders_first_exception(
             loaders, behaviour, path, i + 1,
             IF Len(last_exc) = 0
             THEN load_function(behaviour, loaders[i], path).raised
             ELSE last_exc)
    ELSE LoadResult(load_function(behaviour, loaders[i], path),
                    SubSeq(loaders, 1, i), TRUE)

\* the loop over the loaders from the i-th on, last_exc the exception of
\* the loader before
RECURSIVE try_loaders(_, _, _, _, _)
try_loaders(loaders, behaviour, path, i, last_exc) ==
    IF i > Len(loaders) THEN LoadResult(Raised(last_exc), loaders, TRUE)
    ELSE IF IsRaised(load_function(behaviour, loaders[i], path))
    THEN try_loaders(loaders, behaviour, path, i + 1,
                     load_function(behaviour, loaders[i], path).raised)
    ELSE LoadResult(load_function(behaviour, loaders[i], path),
                    SubSeq(loaders, 1, i), TRUE)

\* with CustomFileOpen(path, 'rb') as file_handler: opening a file that
\* does not exist raises
open_and_try(loaders, behaviour, path, exists) ==
    IF ~exists THEN LoadResult(Raised("FileNotFoundError"), <<>>, FALSE)
    ELSE try_loaders(loaders, behaviour, path, 1, None)

\* the loaders that load selects
selected_loaders(self, path, ext) ==
    IF ext = None THEN ExtensionRegistry_lookup(self, path)
    ELSE DictGet(self.readers, StrLower(ext[1]), <<>>)

ExtensionRegistry_load_with(loaders, behaviour, path, exists) ==
    IF loaders = <<>>
    THEN LoadResult(Raised("NoKnownLoaderException"), <<>>, FALSE)
    ELSE open_and_try(loaders, behaviour, path, exists)

ExtensionRegistry_load(self, path, ext, behaviour, exists) ==
    ExtensionRegistry_load_with(selected_loaders(self, path, ext),
                                behaviour, path, exists)

-----------------------------------------------------------------------------
(* class FileReader                                                        *)

\* A data set that a reader has loaded: the file it comes from, its place
\* among the data sets of that file, and its list of errors.  The arrays
\* and the units of a data set are not part of the model.
DataSet(file, n) == [file |-> file, n |-> n, errors |-> <<>>]

\* DataInfo()
DataInfo == [errors |-> <<>>]

\* FileReader.__init__, with the class attributes ext and allow_all; the
\* attribute ind does not exist before reset_state sets it
FileReader_init ==
    [output |-> <<>>, current_dataset |-> None, current_datainfo |-> None,
     filepath |-> None, f_pos |-> 0, extension |-> None, f_open |-> None,
     ind |-> "absent", ext |-> <<".txt">>, allow_all |-> FALSE]

\* the outcome of a method that changes the reader
ReaderResult(out, self) == [out |-> out, self |-> self]

\* the place of the last '.' of name, 0 when it has none
last_dot(name) ==
    IF \E i \in 1..Len(name) : At(name, i) = "."
    THEN CHOOSE i \in 1..Len(name) :
            /\ At(name, i) = "."
            /\ \A j \in (i + 1)..Len(name) : At(name, j) # "."
    ELSE 0

\* Path(name).suffix for a name without directories
suffix_at(name, i) ==
    IF i <= 1 \/ i = Len(name) THEN "" ELSE SubSeq(name, i, Len(name))

suffix(name) == suffix_at(name, last_dot(name))

\* FileReader.reset_state
FileReader_reset_state(self) ==
    [self EXCEPT !.current_datainfo = None, !.current_dataset = None,
                 !.ind = None, !.output = <<>>]

\* msg appended to the errors of the last item of output
with_error(output, msg) ==
    [output EXCEPT ![Len(output)].errors = Append(@, msg)]

\* FileReader.handle_error_message
FileReader_handle_error_message(self, msg) ==
    IF Len(self.output) > 0
    THEN ReaderResult(Returned(None),
                      [self EXCEPT !.output = with_error(self.output, msg)])
    ELSE IF self.current_datainfo # None
    THEN ReaderResult(Returned(None),
                      [self EXCEPT !.current_datainfo =
                          Some([errors |-> Append(@[1].errors, msg)])])
    ELSE ReaderResult(Raised("NoKnownLoaderException"), self)

\* get_file_contents of the reader class: what it does is given by
\* contents.  It reads contents.sets data sets of the file, sending each
\* to output (send_to_output) and starting a new DataInfo (data_cleanup),
\* and then returns, or raises when contents.raises.
FileReader_get_file_contents(self, contents) ==
    ReaderResult(
        IF contents.raises THEN Raised("FileContentsException")
        ELSE Returned(None),
        [self EXCEPT
            !.output = @ \o [i \in 1..contents.sets |->
                                DataSet(self.filepath[1], i)],
            !.current_datainfo =
                IF contents.sets > 0 THEN Some(DataInfo) ELSE @])

\* convert_data_units and sort_data, which the finally clause calls when
\* output is not empty: they change the arrays and the units of the data
\* sets, and output holds the same data sets afterwards
FileReader_cleanup(self) == self

\* final_data = self.output; self.reset_state(); return final_data, unless
\* the step before has raised
return_output(res) ==
    IF IsRaised(res.out) THEN res
    ELSE ReaderResult(Returned(res.self.output),
                      FileReader_reset_state(res.self))

\* the finally clause of _read
finally_cleanup(res) ==
    IF Len(res.self.output) > 0
    THEN ReaderResult(res.out, FileReader_cleanup(res.self))
    ELSE res

\* FileReader._read, self.f_open and self.extension set
read_contents(self, contents) ==
    return_output(
        IF self.extension \in {self.ext[i] : i \in 1..Len(self.ext)}
                \/ self.allow_all
        THEN finally_cleanup(FileReader_get_file_contents(self, contents))
        ELSE FileReader_handle_error_message(self, "Skipping loader"))

FileReader__read(self, contents) ==
    read_contents([self EXCEPT !.f_open = Some("fd"),
                               !.extension = StrLower(suffix(self.filepath[1]))],
                  contents)

\* FileReader.read without a file handler: the file is opened first, which
\* raises when it does not exist
read_opened(self, contents, exists) ==
    IF ~exists THEN ReaderResult(Raised("FileNotFoundError"), self)
    ELSE FileReader__read(self, contents)

FileReader_read(self, filepath, contents, exists) ==
    read_opened([self EXCEPT !.filepath = Some(filepath), !.f_pos = 0],
                contents, exists)

-----------------------------------------------------------------------------
(* class Registry of the data loader                                       *)

\* Registry.__init__, before the default readers are associated; the time
\* of creation is not part of the model
Registry_init ==
    [readers |-> EmptyDict, writers |-> EmptyDict,
     wildcards |-> <<"All (*.*)|*.*">>]

\* a module with a Reader class: its name, the type_name of its reader, and
\* whether its reader has a write method
Module(name, type_name, has_write) ==
    [name |-> name, type_name |-> type_name, has_write |-> has_write]

\* loader.read and loader.write of the Reader of a module
read_of(module) == module.name \o ".read"
write_of(module) == module.name \o ".write"

\* table[ext].append(item), table[ext] = [] first when ext is not a key
appended(table, ext, item) ==
    DictSet(table, ext, Append(DictGet(table, ext, <<>>), item))

\* the wildcard of a type of files
wildcard(type_name, ext) ==
    type_name \o " files (*" \o StrLower(ext) \o ")|*" \o StrLower(ext)

\* if wcard not in self.wildcards: self.wildcards.append(wcard)
with_wildcard(wildcards, wcard) ==
    IF \E i \in 1..Len(wildcards) : wildcards[i] = wcard THEN wildcards
    ELSE Append(wildcards, wcard)

\* Registry.associate_file_type for a module that has a Reader class
Registry_associate_file_type(self, ext, module) ==
    [self EXCEPT
        !.readers = appended(@, ext, read_of(module)),
        !.wildcards = with_wildcard(@, wildcard(module.type_name, ext)),
        !.writers = IF module.has_write
                    THEN appended(@, ext, write_of(module)) ELSE @]

\* the generic readers of readers.get_generic_readers(), which the
\* docstring of Registry.load names: ascii, cansas XML and cansas NeXuS
GENERIC_READERS == <<"ascii_reader", "cansas_reader", "cansas_reader_HDF5">>

\* the outcome of Registry.load: the outcome of ExtensionRegistry.load, if
\* it was reached, whether load_using_generic_loaders was called and the
\* generic readers it has called
RegistryLoadResult(out, first, generic, generic_called) ==
    [out |-> out, first |-> first, generic |-> generic,
     generic_called |-> generic_called]

\* the loop of load_using_generic_loaders from the i-th module on
RECURSIVE try_generic(_, _, _, _)
try_generic(modules, behaviour, path, i) ==
    IF i > Len(modules)
    THEN [out |-> Raised("NoKnownLoaderException"), called |-> modules]
    ELSE IF behaviour[modules[i]] = "data"
    THEN [out |-> Returned(data_of(modules[i], path)),
          called |-> SubSeq(modules, 1, i)]
    ELSE try_generic(modules, behaviour, path, i + 1)

Registry_load_using_generic_loaders(path, behaviour) ==
    try_generic(GENERIC_READERS, behaviour, path, 1)

\* the second try statement of Registry.load: every exception is raised
\* again
use_backup(first, res) ==
    RegistryLoadResult(res.out, first, TRUE, res.called)

\* Registry.load after super().load(path, ext=ext) with the outcome first
load_after(first, path, use_defaults, behaviour) ==
    IF IsRaised(first.out) /\ ~use_defaults
    THEN RegistryLoadResult(first.out, first, FALSE, <<>>)
    ELSE IF ~IsRaised(first.out) /\ first.out.returned # <<>>
    THEN RegistryLoadResult(first.out, first, FALSE, <<>>)
    ELSE use_backup(first,
                    Registry_load_using_generic_loaders(path, behaviour))

\* Registry.load; behaviour says what the registered and the generic
\* readers do
Registry_load(self, path, ext, use_defaults, behaviour, exists) ==
    load_after(ExtensionRegistry_load(self, path, ext, behaviour, exists),
               path, use_defaults, behaviour)

\* self.writers[ext] for each ext of the list: a defaultdict gives a key
\* that it does not hold the value []
RECURSIVE touched(_, _)
touched(table, extensions) ==
    IF extensions = <<>> THEN table
    ELSE touched(IF DictHas(table, extensions[1]) THEN table
                 ELSE DictSet(table, extensions[1], <<>>),
                 Tail(extensions))

\* the extensions whose writers lookup_writers combines
writer_extensions(self, path) ==
    sort_by_len(matching_extensions(ExtensionRegistry_extensions(self), path))

\* the outcome of a method that changes the registry
RegistryResult(out, self, called) ==
    [out |-> out, self |-> self, called |-> called]

\* Registry.lookup_writers, the list of the extensions given
lookup_writers_in(self, extlist) ==
    RegistryResult(
        IF unique_preserve_order(combine(self.writers, extlist)) = <<>>
        THEN Raised("ValueError")
        ELSE Returned(unique_preserve_order(combine(self.writers, extlist))),
        [self EXCEPT !.writers = touched(@, extlist)], <<>>)

Registry_lookup_writers(self, path) ==
    lookup_writers_in(self, writer_extensions(self, path))

\* writers = self.writers[format]
writers_of_format(self, format) ==
    RegistryResult(Returned(DictGet(self.writers, format, <<>>)),
                   [self EXCEPT !.writers = touched(@, <<format>>)], <<>>)

\* the loop of save from the i-th writer on: the exception of a writer is
\* logged, and the function returns None after the last writer
RECURSIVE try_writers(_, _, _, _, _)
try_writers(self, writers, behaviour, path, i) ==
    IF i > Len(writers) THEN RegistryResult(Returned(None), self, writers)
    ELSE IF behaviour[writers[i]] = "raise"
    THEN try_writers(self, writers, behaviour, path, i + 1)
    ELSE RegistryResult(Returned(Some(path)), self, SubSeq(writers, 1, i))

\* save after the writers are selected
save_with(selected, behaviour, path) ==
    IF IsRaised(selected.out) THEN selected
    ELSE try_writers(selected.self, selected.out.returned, behaviour, path, 1)

Registry_save(self, path, format, behaviour) ==
    save_with(IF format = None THEN Registry_lookup_writers(self, path)
              ELSE writers_of_format(self, format[1]),
              behaviour, path)

-----------------------------------------------------------------------------
(* The state machine                                                       *)

VARIABLES
    conv,   \* the Converter the program holds: None, or Some(object)
    made,   \* the arguments conv was constructed with
    seen,   \* the kinds of outcome of the calls made on conv so far
    ret,    \* the last operation, its arguments and its outcome
    trip,   \* the round trip under way (SpecRoundTrip)
    registry,   \* the ExtensionRegistry or Registry the program holds
    assigned,   \* for every key of the registry, the loaders in the order
                \* in which they were registered
    reader,     \* the FileReader the program holds
    stored      \* the stores made into DIMENSIONS, into its tables and into
                \* AMBIGUITIES since _build_all_units returned, in order

vars == <<conv, made, seen, ret, trip, registry, assigned, reader, stored>>

\* the registry and the file reader, which the unit conversions leave alone
files == <<registry, assigned, reader>>

NoFiles ==
    /\ registry = ExtensionRegistry_init
    /\ assigned = EmptyDict
    /\ reader = FileReader_init

MaxListLen == 3

CONSTRUCT_UNITS ==
    {None} \cup {Some(u) : u \in
        {"", "foo", "m", "mm", "A", "C", "F", "R", "K", "min", "minute",
         "minutes", "°", "second", "seconds", "sec", "degC", "degF",
         "milli*metre", "milli_meter", "millimeters", "Millimeter",
         "mili*metre", "Ang", "1e-7 seconds", "µAmp*hour"}}

CONSTRUCT_DIMENSIONS == {<<>>, <<"charge">>, <<"time">>}

CALL_UNITS ==
    {None} \cup {Some(u) : u \in {"", "m", "mC", "K", "degC", "degF", "foo"}}

CALL_VALUES ==
    {PyFloat(Num(0)), PyFloat(Num(5)), PyFloat(Num(100)),
     PyFloat(Dec(-27315, -2))}
        \cup {PyList([i \in 1..n |-> Num(i)]) : n \in 1..MaxListLen}

NoTrip == [stage |-> "none"]
NoOp == [op |-> "none"]

Init ==
    /\ conv = None
    /\ made = None
    /\ seen = {}
    /\ stored = <<>>
    /\ ret = NoOp
    /\ trip = NoTrip
    /\ NoFiles

\* c = Converter(units, dimension); when the constructor raises, c is not
\* assigned
Construct(units, dimension) ==
    /\ ret' = [op |-> "init", units |-> units, dimension |-> dimension,
               out |-> Converter_init(units, dimension)]
    /\ stored' = stored \o Converter_init_stores(units, dimension)
    /\ IF IsRaised(ret'.out) THEN UNCHANGED <<conv, made, seen>>
       ELSE /\ conv' = Some(ret'.out.returned)
            /\ made' = Some([units |-> units, dimension |-> dimension])
            /\ seen' = {}

\* the state after c(value, units), res being the result of the call
Called_with(value, units, res) ==
    /\ ret' = [op |-> "call", value |-> value, units |-> units,
               out |-> res.out, looked |-> res.looked]
    /\ conv' = Some(res.self)
    /\ seen' = seen \cup {IF IsRaised(res.out) THEN "raised" ELSE "returned"}

\* c(value, units)
Call(value, units) ==
    /\ conv # None
    /\ Called_with(value, units, Converter_call(conv[1], value, units))
    /\ stored' = stored \o Converter_call_stores(conv[1], value, units)
    /\ UNCHANGED made

Next ==
    \/ \E u \in CONSTRUCT_UNITS, d \in CONSTRUCT_DIMENSIONS :
            Construct(u, d) /\ UNCHANGED <<trip, files>>
    \/ \E v \in CALL_VALUES, u \in CALL_UNITS :
            Call(v, u) /\ UNCHANGED <<trip, files>>

Spec == Init /\ [][Next]_vars

-----------------------------------------------------------------------------
(* The round trip: Converter(U)(x, V) = y, then Converter(V)(y, U)         *)

\* names of units, each a key of a table of DIMENSIONS
TRIP_UNITS ==
    {"m", "mm", "km", "A", "K", "degC", "degF", "C", "mC", "s", "min",
     "1e-7 s", "eV", "electronvolt"}

TRIP_VALUES == {Num(0), Num(100), Dec(-27315, -2)}

\* some table of all holds both U and V
BothIn(all, U, V) ==
    \E d \in DOMAIN all.map :
        DictHas(all.map[d], U) /\ DictHas(all.map[d], V)

SameTable(U, V) == BothIn(DIMENSIONS, U, V)

InitRoundTrip ==
    /\ conv = None
    /\ made = None
    /\ seen = {}
    /\ stored = <<>>
    /\ ret = NoOp
    /\ NoFiles
    /\ \E U \in TRIP_UNITS, V \in TRIP_UNITS, x \in TRIP_VALUES :
            /\ SameTable(U, V)
            /\ trip = [stage |-> "start", U |-> U, V |-> V, x |-> x,
                       y |-> PyFloat(x)]

TripConstruct ==
    /\ trip.stage \in {"start", "there"}
    /\ Construct(Some(IF trip.stage = "start" THEN trip.U ELSE trip.V), <<>>)
    /\ trip' = [trip EXCEPT !.stage =
                    IF IsRaised(ret'.out) THEN "failed"
                    ELSE IF trip.stage = "start" THEN "first" ELSE "second"]
    /\ UNCHANGED files

TripCall ==
    /\ trip.stage \in {"first", "second"}
    /\ Call(trip.y, Some(IF trip.stage = "first" THEN trip.V ELSE trip.U))
    /\ trip' = IF IsRaised(ret'.out) THEN [trip EXCEPT !.stage = "failed"]
               ELSE [trip EXCEPT !.stage = IF trip.stage = "first"
                                           THEN "there" ELSE "back",
                                 !.y = ret'.out.returned]
    /\ UNCHANGED files

NextRoundTrip == TripConstruct \/ TripCall

SpecRoundTrip == InitRoundTrip /\ [][NextRoundTrip]_vars

-----------------------------------------------------------------------------
(* standardize_units, applied to a string and then to its own result       *)

\* unit strings: keys of the tables, and spellings of them
STANDARDIZE_UNITS ==
    {None} \cup {Some(u) : u \in
    {"", "foo", "m", "mm", "km", "A", "C", "K", "min", "°", "second", "sec",
     "degC", "degF", "a.u.", "1e-7 s", "s", "eV", "electronvolt",
     "milli*metre", "Millimeter", "Ang", "1e-7 seconds", "µAmp*hour", "m/s",
     "1/cm", "cm^-1", "A^-2", "invA", "m2", "counts", "kelvin", "celcius",
     "hertz", "Hz", "arbitrary units", "unknown", "None", "c_T", "c*tesla",
     "k_Electronvolt", "m s", "10^-6 Angstrom^-2", "Å^{-2} cm^{-1}", "2m",
     "a.b", "%", "a{b", "a{{b", "a}}b", "x{{}}y"}}

InitStandardize ==
    /\ conv = None
    /\ made = None
    /\ seen = {}
    /\ stored = <<>>
    /\ trip = NoTrip
    /\ NoFiles
    /\ \E u \in STANDARDIZE_UNITS : ret = [op |-> "unit", unit |-> u]

\* tokens = standardize_units(unit)
Standardize ==
    /\ ret.op = "unit"
    /\ ret' = [op |-> "standardize", unit |-> ret.unit,
               out |-> standardize_units(ret.unit)]
    /\ UNCHANGED <<conv, made, seen, trip, stored, files>>

\* standardize_units(' '.join(tokens))
Restandardize ==
    /\ ret.op = "standardize"
    /\ ret' = [op |-> "restandardize", unit |-> ret.unit, first |-> ret.out,
               out |-> standardize_units(Some(StrJoin(" ", ret.out)))]
    /\ UNCHANGED <<conv, made, seen, trip, stored, files>>

NextStandardize == Standardize \/ Restandardize

SpecStandardize == InitStandardize /\ [][NextStandardize]_vars

-----------------------------------------------------------------------------
(* get_compatible_units, called on the Converter of a unit string          *)

\* the units the Converters are made of: names of angles, of unknown
\* units, of distances and times, compounds of two names, a temperature
\* with a time, and names that no Converter can be made of
COMPATIBLE_UNITS ==
    {Some(u) : u \in
        {"deg", "degree", "degrees", "rad", "radian", "radians", "min",
         "minute", "arcmin", "arcminute", "", "None", "???", "unknown", "Unk",
         "counts", "Counts", "cts", "unitless", "a.u.", "arbitrary",
         "deg cts", "cts deg", "a.u. a.u.", "cts cts", "deg deg", "rad cts",
         "m", "s", "K s", "arcsec", "d"}}

\* units = c.get_compatible_units()
GetCompatibleUnits ==
    /\ conv # None
    /\ ret' = [op |-> "compatible",
               out |-> Converter_get_compatible_units(conv[1])]
    /\ stored' = stored \o Converter_get_compatible_units_stores(conv[1])
    /\ UNCHANGED <<conv, made, seen, trip, files>>

NextCompatible ==
    \/ \E u \in COMPATIBLE_UNITS :
            Construct(u, <<>>) /\ UNCHANGED <<trip, files>>
    \/ GetCompatibleUnits

SpecCompatible == Init /\ [][NextCompatible]_vars

-----------------------------------------------------------------------------
(* An ExtensionRegistry: loaders are registered, looked up and called      *)

MaxAssign == 3

\* extensions, one the end of another, and the name of a format
REGISTRY_KEYS == {".gz", ".tar.gz", "cx3"}

LOADERS == {"gunzip", "untar"}

\* the paths of files that exist, and of a file that does not
PATHS == {"a.tar.gz", "B.GZ", "c.txt"}
MISSING_PATHS == {"missing.gz"}

\* the explicit format of a load: none, or the name of a format
FORMATS == {None, Some("CX3")}

\* what the loaders do when they are called
BEHAVIOURS ==
    {[l \in LOADERS |-> "raise"],
     [l \in LOADERS |-> IF l = "gunzip" THEN "raise" ELSE "data"],
     [l \in LOADERS |-> IF l = "untar" THEN "raise" ELSE "empty"]}

\* the number of loaders in the lists of the table for the first n keys
RECURSIVE count_items(_, _)
count_items(table, n) ==
    IF n = 0 THEN 0
    ELSE count_items(table, n - 1) + Len(table.map[table.keys[n]])

\* registry[ext] = loader
SetItem(ext, loader) ==
    /\ count_items(assigned, Len(assigned.keys)) < MaxAssign
    /\ registry' = ExtensionRegistry_setitem(registry, ext, loader)
    /\ assigned' = DictSet(assigned, ext,
                           Append(DictGet(assigned, ext, <<>>), loader))
    /\ ret' = [op |-> "setitem", ext |-> ext, loader |-> loader]
    /\ UNCHANGED <<conv, made, seen, trip, stored, reader>>

\* registry.lookup(path)
Lookup(path) ==
    /\ ret' = [op |-> "lookup", path |-> path,
               out |-> ExtensionRegistry_lookup(registry, path)]
    /\ UNCHANGED <<conv, made, seen, trip, stored, files>>

\* registry.load(path, ext)
Load(path, ext, behaviour) ==
    /\ ret' = [op |-> "load", path |-> path, ext |-> ext,
               behaviour |-> behaviour, exists |-> path \in PATHS,
               res |-> ExtensionRegistry_load(registry, path, ext, behaviour,
                                              path \in PATHS)]
    /\ UNCHANGED <<conv, made, seen, trip, stored, files>>

NextRegistry ==
    \/ \E ext \in REGISTRY_KEYS, loader \in LOADERS : SetItem(ext, loader)
    \/ \E path \in PATHS \cup MISSING_PATHS : Lookup(path)
    \/ \E path \in PATHS \cup MISSING_PATHS, ext \in FORMATS,
          behaviour \in BEHAVIOURS : Load(path, ext, behaviour)

SpecRegistry == Init /\ [][NextRegistry]_vars

-----------------------------------------------------------------------------
(* A FileReader: one reader instance reads file after file                 *)

MaxOutput == 3

\* the paths of files that exist, and of a file that does not
READ_PATHS == {"a.txt", "B.TXT", "c.dat"}
MISSING_READ_PATHS == {"missing.txt"}

\* what get_file_contents does with a file: the number of data sets it
\* sends to output, and whether it raises after that
CONTENTS == [sets : 0..2, raises : BOOLEAN]

\* data = reader.read(filepath)
Read(filepath, contents) ==
    /\ Len(reader.output) + contents.sets <= MaxOutput
    /\ ret' = [op |-> "read", filepath |-> filepath, contents |-> contents,
               before |-> reader.output,
               out |-> FileReader_read(reader, filepath, contents,
                                       filepath \in READ_PATHS).out]
    /\ reader' = FileReader_read(reader, filepath, contents,
                                 filepath \in READ_PATHS).self
    /\ UNCHANGED <<conv, made, seen, trip, stored, registry, assigned>>

NextReader ==
    \E filepath \in READ_PATHS \cup MISSING_READ_PATHS, contents \in CONTENTS :
        Read(filepath, contents)

SpecReader == Init /\ [][NextReader]_vars

-----------------------------------------------------------------------------
(* The Registry of the data loader: file types are associated, files are   *)
(* loaded and saved                                                        *)

\* the number of associations the registry of the data loader holds
MaxAssociate == 2

LOADER_EXTENSIONS == {".txt", ".xml"}

\* a module whose reader cannot write, and one whose reader can
MODULES ==
    {Module("plugin_r", "Plain", FALSE), Module("plugin_rw", "Full", TRUE)}

LOADER_PATHS == {"a.txt", "b.xml", "c.dat"}

\* the explicit format of a load or of a save
LOADER_FORMATS == {None, Some(".xml")}

\* what the read and write methods of the modules and the generic readers
\* do when they are called
LOADER_BEHAVIOURS ==
    {[f \in {"plugin_r.read", "plugin_rw.read", "plugin_rw.write",
             "ascii_reader", "cansas_reader", "cansas_reader_HDF5"} |->
        b[IF f \in {"plugin_r.read", "plugin_rw.read"} THEN 1
          ELSE IF f = "plugin_rw.write" THEN 3 ELSE 2]] :
        b \in {<<"data", "raise", "data">>, <<"raise", "data", "raise">>,
               <<"empty", "data", "data">>, <<"raise", "raise", "raise">>,
               <<"empty", "empty", "data">>}}

InitLoader ==
    /\ conv = None
    /\ made = None
    /\ seen = {}
    /\ stored = <<>>
    /\ ret = NoOp
    /\ trip = NoTrip
    /\ registry = Registry_init
    /\ assigned = EmptyDict
    /\ reader = FileReader_init

\* registry.associate_file_type(ext, module)
AssociateFileType(ext, module) ==
    /\ count_items(registry.readers,
                   Len(registry.readers.keys)) < MaxAssociate
    /\ registry' = Registry_associate_file_type(registry, ext, module)
    /\ ret' = [op |-> "associate", ext |-> ext, module |-> module]
    /\ UNCHANGED <<conv, made, seen, trip, stored, assigned, reader>>

\* registry.load(path, ext, use_defaults=use_defaults)
RegistryLoad(path, ext, use_defaults, behaviour) ==
    /\ ret' = [op |-> "registry_load", path |-> path, ext |-> ext,
               use_defaults |-> use_defaults, behaviour |-> behaviour,
               res |-> Registry_load(registry, path, ext, use_defaults,
                                     behaviour, TRUE)]
    /\ UNCHANGED <<conv, made, seen, trip, stored, files>>

\* registry.save(path, data, format)
Save(path, format, behaviour) ==
    /\ ret' = [op |-> "save", path |-> path, format |-> format,
               behaviour |-> behaviour, before |-> registry,
               out |-> Registry_save(registry, path, format, behaviour).out,
               called |-> Registry_save(registry, path, format,
                                        behaviour).called]
    /\ registry' = Registry_save(registry, path, format, behaviour).self
    /\ UNCHANGED <<conv, made, seen, trip, stored, assigned, reader>>

NextLoader ==
    \/ \E ext \in LOADER_EXTENSIONS, module \in MODULES :
            AssociateFileType(ext, module)
    \/ \E path \in LOADER_PATHS, ext \in LOADER_FORMATS,
          use_defaults \in BOOLEAN, behaviour \in LOADER_BEHAVIOURS :
            RegistryLoad(path, ext, use_defaults, behaviour)
    \/ \E path \in LOADER_PATHS, format \in LOADER_FORMATS,
          behaviour \in LOADER_BEHAVIOURS : Save(path, format, behaviour)

SpecLoader == InitLoader /\ [][NextLoader]_vars

-----------------------------------------------------------------------------
(* Conversions of compound units and of the full names of the units        *)

\* the units the Converters are made of: compounds with and without a
\* token of AMBIGUITIES, a temperature with a time, and the full names
\* that the metric tables are built from
CONVERT_UNITS ==
    {Some(u) : u \in
        {"A s", "C m", "min s", "m s", "K s", "mm min", "m", "A", "degC",
         "meter", "second", "hertz", "kelvin", "coulomb", "ohm",
         "electronvolt", "tesla", "gauss"}}

\* the units converted to: of as many tokens as the source, of fewer and
\* of more, and with a token that no table holds
CONVERT_TARGETS ==
    {Some(u) : u \in
        {"km", "m", "K", "degC", "degF", "km min", "degC min", "m s",
         "km foo", "foo", "foo s", "K s min"}}

CONVERT_VALUES == {PyFloat(Num(0)), PyFloat(Num(5)), PyFloat(Dec(-27315, -2))}

NextConvert ==
    \/ \E u \in CONVERT_UNITS :
            Construct(u, <<>>) /\ UNCHANGED <<trip, files>>
    \/ \E v \in CONVERT_VALUES, u \in CONVERT_TARGETS :
            Call(v, u) /\ UNCHANGED <<trip, files>>

SpecConvert == Init /\ [][NextConvert]_vars

-----------------------------------------------------------------------------
(* The tables under the operations: Converters are made with and without   *)
(* a dimension, called, asked for their compatible units, and unit strings *)
(* are standardized                                                        *)

TABLE_UNITS ==
    {None} \cup {Some(u) : u \in {"deg", "deg cts", "A s", "foo"}}

\* dimension lists: none, the key of a table, and a key of no table
TABLE_DIMENSIONS == {<<>>, <<"angle">>, <<"length">>}

TABLE_TARGETS == {Some(u) : u \in {"", "rad", "foo", "a.u."}}

TABLE_VALUES == {PyFloat(Num(5))}

\* tokens = standardize_units(unit)
StandardizeUnits(unit) ==
    /\ ret' = [op |-> "standardize", unit |-> unit,
               out |-> standardize_units(unit)]
    /\ UNCHANGED <<conv, made, seen, trip, stored, files>>

NextTables ==
    \/ \E u \in TABLE_UNITS, d \in TABLE_DIMENSIONS :
            Construct(u, d) /\ UNCHANGED <<trip, files>>
    \/ \E v \in TABLE_VALUES, u \in TABLE_TARGETS :
            Call(v, u) /\ UNCHANGED <<trip, files>>
    \/ GetCompatibleUnits
    \/ \E u \in TABLE_UNITS : StandardizeUnits(u)

SpecTables == Init /\ [][NextTables]_vars

-----------------------------------------------------------------------------
(* The building of the tables: a metric family is generated, the module    *)
(* builds DIMENSIONS, one of its tables is taken and a key is looked up    *)

\* the (unit, abbr) that _build_all_units hands to _build_metric_units
METRIC_FAMILIES ==
    {<<"meter", "m">>, <<"metre", "m">>, <<"second", "s">>,
     <<"hertz", "Hz">>, <<"Hertz", "Hz">>, <<"kelvin", "K">>,
     <<"coulomb", "C">>, <<"ohm", OHM_SIGN>>, <<"electronvolt", "eV">>,
     <<"tesla", "T">>, <<"gauss", "G">>}

BUILD_KEYS ==
    {"m", "mm", "milli meter", "milli*meters", "ms", "Kelvin", "celsius",
     "degC", "1/mm^2", "Å^{-3}", "m^-3", "foo"}

\* map = _build_metric_units(unit, abbr)
BuildMetricUnits(unit, abbr) ==
    /\ ret' = [op |-> "build_metric_units", unit |-> unit, abbr |-> abbr,
               out |-> build_metric_units(unit, abbr)]
    /\ UNCHANGED <<conv, made, seen, trip, stored, files>>

\* _build_all_units(), the call that the module makes when it is imported
BuildAllUnits ==
    /\ ret' = [op |-> "build_all_units", out |-> DIMENSIONS]
    /\ UNCHANGED <<conv, made, seen, trip, stored, files>>

\* DIMENSIONS[name]
GetTable(name) ==
    /\ ret.op = "build_all_units"
    /\ DictHas(ret.out, name)
    /\ ret' = [op |-> "table", name |-> name, out |-> ret.out.map[name]]
    /\ UNCHANGED <<conv, made, seen, trip, stored, files>>

\* key in table and table.get(key), table being the map or the table that
\* the step before returned
GetItem(key) ==
    /\ ret.op \in {"build_metric_units", "table"}
    /\ ret' = [op |-> "item", key |-> key,
               of |-> IF ret.op = "table" THEN ret.name ELSE ret.unit,
               found |-> DictHas(ret.out, key),
               out |-> DictGet(ret.out, key, None)]
    /\ UNCHANGED <<conv, made, seen, trip, stored, files>>

NextBuild ==
    \/ \E f \in METRIC_FAMILIES : BuildMetricUnits(f[1], f[2])
    \/ BuildAllUnits
    \/ \E name \in DOMAIN DIMENSIONS.map : GetTable(name)
    \/ \E key \in BUILD_KEYS : GetItem(key)

SpecBuild == Init /\ [][NextBuild]_vars

-----------------------------------------------------------------------------
(* Properties                                                              *)

\* the state after c = Converter(units) (no dimension given) and
\* c(value, target)
Called(units, value, target) ==
    /\ ret.op = "call"
    /\ made = Some([units |-> Some(units), dimension |-> <<>>])
    /\ ret.value = PyFloat(value)
    /\ ret.units = Some(target)

\* C1 (as claimed): for unit names U and V of one Dimension table and a
\* value x, Converter(U) converts x to V and Converter(V) converts the
\* result back to U without an error, and the round trip returns x.
RoundTripIdentity ==
    trip.stage # "none" =>
        /\ trip.stage # "failed"
        /\ trip.stage = "back" => ret.out = Returned(PyFloat(trip.x))

\* C2 (as claimed): Converter("degC") converts 0 to "degF" as 32 and 100 to
\* "degF" as 212.
CelsiusToFahrenheit ==
    /\ Called("degC", Num(0), "degF") => ret.out = Returned(PyFloat(Num(32)))
    /\ Called("degC", Num(100), "degF") =>
            ret.out = Returned(PyFloat(Num(212)))

\* C3: Converter("K") converts 0 to "degC" as -273.15, and Converter("degC")
\* converts -273.15 to "K" as 0.
KelvinToCelsius ==
    /\ Called("K", Num(0), "degC") =>
            ret.out = Returned(PyFloat(Dec(-27315, -2)))
    /\ Called("degC", Dec(-27315, -2), "K") =>
            ret.out = Returned(PyFloat(Num(0)))

KelvinToCelsiusWitness ==
    /\ Called("K", Num(0), "degC")
    /\ ret.out = Returned(PyFloat(Dec(-27315, -2)))

\* the single normalised token of units is a key of no table
Unrecognized(units) ==
    LET tokens == standardize_units(units)
    IN  /\ Len(tokens) = 1
        /\ \A d \in DOMAIN DIMENSIONS.map :
                ~DictHas(DIMENSIONS.map[d], tokens[1])

\* C4 (as claimed): constructing a Converter, no dimension given, from a
\* unit whose normalised token is in no table does not raise, and the
\* Converter is dimensionless with scale 1 and offset 0.
UnrecognizedPassthrough ==
    (ret.op = "init" /\ ret.dimension = <<>> /\ ret.units # None
        /\ Unrecognized(ret.units)) =>
            /\ ~IsRaised(ret.out)
            /\ ret.out.returned.dimension = <<"dimensionless">>
            /\ ret.out.returned.scalebase = ONE
            /\ ret.out.returned.scaleoffset = ZERO

\* a token of the target is paired with a dimension of c whose table lacks it
Incompatible(c, target) ==
    LET tokens == standardize_units(target)
    IN  \E i \in DOMAIN tokens :
            /\ i <= Len(c.dimension)
            /\ DictHas(DIMENSIONS, c.dimension[i])
            /\ ~DictHas(DIMENSIONS.map[c.dimension[i]], tokens[i])

\* C5: a call with a non-empty target, a token of which is absent from the
\* table of the dimension it is paired with, raises ValueError and returns
\* no value.
IncompatibleRaises ==
    (ret.op = "call" /\ ret.units # None /\ ret.units # Some("")
        /\ Incompatible(conv[1], ret.units)) =>
            ret.out = Raised("ValueError")

IncompatibleRaisesWitness ==
    /\ Called("m", Num(5), "degC")
    /\ conv[1].dimension = <<"distance">>
    /\ ret.out = Raised("ValueError")

\* C6: calls, returning or raising, leave the Converter as its constructor
\* made it, and each call has the outcome it has on a Converter freshly
\* constructed with the same arguments.
CallIsPure ==
    conv # None =>
        LET fresh == Converter_init(made[1].units, made[1].dimension).returned
        IN  /\ conv = Some(fresh)
            /\ ret.op = "call" =>
                    ret.out = Converter_call(fresh, ret.value, ret.units).out

CallIsPureWitness ==
    /\ seen = {"returned", "raised"}
    /\ ret.op = "call"
    /\ ret.looked
    /\ ~IsRaised(ret.out)

\* C7: a Converter built, no dimension given, from a key of the ambiguity
\* table has that key's default dimension: "A" is a distance with scale
\* 1e-10, "C", "F" and "R" are temperatures, "min", "minute", "minutes" and
\* the degree sign are angles.
AmbiguityDefault ==
    (ret.op = "init" /\ ret.dimension = <<>> /\ ret.units # None
        /\ DictHas(AMBIGUITIES, ret.units[1])) =>
            /\ ~IsRaised(ret.out)
            /\ ret.out.returned.dimension = <<AMBIGUITIES.map[ret.units[1]]>>
            /\ ret.units[1] = "A" =>
                    /\ ret.out.returned.dimension = <<"distance">>
                    /\ ret.out.returned.scalebase = Dec(1, -10)
            /\ ret.units[1] \in {"C", "F", "R"} =>
                    ret.out.returned.dimension = <<"temperature">>
            /\ ret.units[1] \in {"min", "minute", "minutes", "°"} =>
                    ret.out.returned.dimension = <<"angle">>

AmbiguityDefaultWitness ==
    /\ ret.op = "init"
    /\ ret.units = Some("min")
    /\ ret.dimension = <<>>
    /\ ~IsRaised(ret.out)
    /\ ret.out.returned.dimension = <<"angle">>

\* C8: with a non-empty dimension list given, the constructor does not read
\* the ambiguity table and the Converter's dimensions are the list given;
\* "C" with the dimension charge is a charge with scale 1.
ExplicitDimension ==
    (ret.op = "init" /\ ret.dimension # <<>>) =>
        /\ ~ret.out.consulted
        /\ ~IsRaised(ret.out) => ret.out.returned.dimension = ret.dimension
        /\ (ret.units = Some("C") /\ ret.dimension = <<"charge">>) =>
                /\ ~IsRaised(ret.out)
                /\ ret.out.returned.scalebase = ONE

ExplicitDimensionWitness ==
    /\ ret.op = "init"
    /\ ret.units = Some("C")
    /\ ret.dimension = <<"charge">>
    /\ ~IsRaised(ret.out)
    /\ ret.out.returned.dimension = <<"charge">>

\* the outcome of converting each element of the list on its own
Elementwise(c, items, target) ==
    [i \in DOMAIN items |-> Converter_call(c, PyFloat(items[i]), target).out]

\* C9 (as claimed): converting a list returns the list, of the same length,
\* of the conversions of its elements.
SequenceConversion ==
    (ret.op = "call" /\ ret.value.type = "list") =>
        LET each == Elementwise(conv[1], ret.value.items, ret.units)
        IN  (\A i \in DOMAIN each : ~IsRaised(each[i])) =>
                ret.out = Returned(PyList(
                            [i \in DOMAIN each |-> each[i].returned.num]))

\* C10: a call with the empty string as target returns the value given,
\* looks nothing up and does not raise.
EmptyTargetReturnsValue ==
    (ret.op = "call" /\ ret.units = Some("")) =>
        /\ ret.out = Returned(ret.value)
        /\ ~ret.looked

EmptyTargetReturnsValueWitness ==
    /\ ret.op = "call"
    /\ ret.units = Some("")
    /\ made = Some([units |-> Some("degF"), dimension |-> <<>>])
    /\ ret.out = Returned(PyFloat(Num(100)))

\* the state after Converter(units), no dimension given, has returned a
\* Converter of the one dimension given, with the scale and offset given
Constructed(units, dimension, scale, offset) ==
    (ret.op = "init" /\ ret.units = Some(units) /\ ret.dimension = <<>>) =>
        /\ ~IsRaised(ret.out)
        /\ ret.out.returned.dimension = <<dimension>>
        /\ ret.out.returned.scalebase = scale
        /\ ret.out.returned.scaleoffset = offset

\* C11 (as claimed): each of "mm", "milli*metre", "milli_meter",
\* "millimeters" and "Millimeter" constructs a Converter of the dimension
\* distance with scale 1e-3.
PrefixCompleteness ==
    \A u \in {"mm", "milli*metre", "milli_meter", "millimeters",
               "Millimeter"} :
        Constructed(u, "distance", Dec(1, -3), ZERO)

\* C12 (as claimed): the tokens of a unit string, joined with single
\* spaces and normalised again, are the same tokens.
NormalizationIdempotence ==
    ret.op = "restandardize" => ret.out = ret.first

\* C14 (as claimed): "mili*metre", "Ang", "1e-7 seconds", "degC" and
\* "µAmp*hour" each construct a Converter, of the dimension distance,
\* distance, time, temperature and charge, with the factor of the table.
InconsistentSpellings ==
    /\ Constructed("mili*metre", "distance", Dec(1, -3), ZERO)
    /\ Constructed("Ang", "distance", Dec(1, -10), ZERO)
    /\ Constructed("1e-7 seconds", "time", Dec(1, -7), ZERO)
    /\ Constructed("degC", "temperature", ONE, Dec(-27315, -2))
    /\ Constructed("µAmp*hour", "charge", Dec(36, -4), ZERO)

\* (name, conv) for the items of the first n tables of the Converter c,
\* the names standardized
RECURSIVE TableItems(_, _)
TableItems(c, n) ==
    IF n = 0 THEN <<>>
    ELSE TableItems(c, n - 1) \o standardized_items(scalemap_tables(c)[n])

\* the conversion of the first of the items that has the name unit
ScaleOf(items, unit) ==
    items[CHOOSE k \in 1..Len(items) :
              /\ items[k][1] = unit
              /\ \A j \in 1..(k - 1) : items[j][1] # unit][2]

\* units holds the name of every item, each once, and the conversion
\* scale never decreases along units
CompleteAndSorted(units, items) ==
    /\ {units[i] : i \in 1..Len(units)} = {items[k][1] : k \in 1..Len(items)}
    /\ \A i, j \in 1..Len(units) : units[i] = units[j] => i = j
    /\ \A i \in 1..(Len(units) - 1) :
           ~conv_less(ScaleOf(items, units[i + 1]), ScaleOf(items, units[i]))

\* C13 (as claimed): get_compatible_units returns the standardized form of
\* every unit name of the tables of the Converter, single or compound, each
\* form once, in an order in which the conversion scale never decreases.
CompatibleUnitsSorted ==
    ret.op = "compatible" =>
        /\ ~IsRaised(ret.out)
        /\ CompleteAndSorted(ret.out.returned,
                             TableItems(conv[1], Len(conv[1].scalemap)))

\* the place of x in the list xs
IndexOf(xs, x) == CHOOSE i \in 1..Len(xs) : xs[i] = x

\* the items of the list xs
Items(xs) == {xs[i] : i \in 1..Len(xs)}

\* the extensions of the registry that end the path
Matching(path) ==
    {ext \in Items(registry.readers.keys) :
        StartsWith(ext, ".") /\ EndsWith(StrLower(path), ext)}

\* C15 (as claimed): when a longer and a shorter registered extension both
\* end the path, lookup lists every loader of the longer extension before
\* any loader that only the shorter extension has.
SpecificBeforeGeneric ==
    ret.op = "lookup" =>
        \A long, short \in Matching(ret.path) :
            Len(long) > Len(short) =>
                \A x \in Items(registry.readers.map[long]),
                   y \in Items(registry.readers.map[short])
                            \ Items(registry.readers.map[long]) :
                    IndexOf(ret.out, x) < IndexOf(ret.out, y)

\* the list xs in reverse
Reversed(xs) == [i \in 1..Len(xs) |-> xs[Len(xs) + 1 - i]]

\* C16 (as claimed): lookup of a path returns, for every registered
\* extension that ends the path, the loaders registered for it in reverse
\* order of registration, and no loader twice.
ReverseRegistrationOrder ==
    ret.op = "lookup" =>
        /\ \A i, j \in 1..Len(ret.out) : ret.out[i] = ret.out[j] => i = j
        /\ \A ext \in Matching(ret.path) :
               SelectSeq(ret.out,
                         LAMBDA x : x \in Items(assigned.map[ext]))
                   = unique_preserve_order(Reversed(assigned.map[ext]))

\* C17: load calls the selected loaders in the order of their list and
\* returns what the first loader that does not raise returns, without
\* calling a later one; when every loader raises, it raises the exception of
\* the last; when no loader is selected, it raises NoKnownLoaderException
\* and does not open the file.
LoadTriesInOrder ==
    ret.op = "load" =>
        LET loaders == selected_loaders(registry, ret.path, ret.ext)
            called == ret.res.called
            last == called[Len(called)]
        IN  /\ loaders = <<>> =>
                   /\ ret.res.out = Raised("NoKnownLoaderException")
                   /\ ~ret.res.opened
                   /\ called = <<>>
            /\ (loaders # <<>> /\ ret.exists) =>
                   /\ ret.res.opened
                   /\ called # <<>>
                   /\ called = SubSeq(loaders, 1, Len(called))
                   /\ \A i \in 1..(Len(called) - 1) :
                          ret.behaviour[called[i]] = "raise"
                   /\ IF ret.behaviour[last] = "raise"
                      THEN /\ called = loaders
                           /\ ret.res.out = Raised(exception_of(last))
                      ELSE ret.res.out =
                               Returned(IF ret.behaviour[last] = "empty"
                                        THEN <<>>
                                        ELSE data_of(last, ret.path))

\* load has called two loaders, of which the first raised and the second
\* returned
LoadTriesInOrderWitness ==
    /\ ret.op = "load"
    /\ Len(ret.res.called) = 2
    /\ ret.behaviour[ret.res.called[1]] = "raise"
    /\ ~IsRaised(ret.res.out)

\* C18 (as claimed): the output of the reader is empty when a read starts,
\* and a read returns only data sets of the file it was called with,
\* whatever the reads before it did.
ReadReturnsOwnData ==
    ret.op = "read" =>
        /\ ret.before = <<>>
        /\ ~IsRaised(ret.out) =>
               \A i \in 1..Len(ret.out.returned) :
                   ret.out.returned[i].file = ret.filepath

\* C19 (as claimed): with use_defaults false load never calls
\* load_using_generic_loaders and raises the exception of the registered
\* readers again; with use_defaults true the generic readers are used when
\* the registered reader fails, returns no data or does not exist.
NoDefaultsNoGeneric ==
    ret.op = "registry_load" =>
        /\ ~ret.use_defaults =>
               /\ ~ret.res.generic
               /\ IsRaised(ret.res.first.out) => ret.res.out = ret.res.first.out
        /\ ret.use_defaults =>
               ret.res.generic =
                   (\/ IsRaised(ret.res.first.out)
                    \/ ret.res.first.out.returned = <<>>)

\* the writers registered for an extension that ends the path
WritersFor(table, path) ==
    UNION {Items(table.map[ext]) :
              ext \in {e \in Items(table.keys) :
                          StartsWith(e, ".") /\ EndsWith(path, e)}}

\* C20 (as claimed): save raises ValueError when no writer is registered
\* for the extension of the path and no format is given, and KeyError when
\* the format given has no writers; it does not return normally then, and
\* a save that raises leaves the table of the writers as it was.
SaveReportsMissingWriters ==
    ret.op = "save" =>
        /\ (ret.format = None /\ WritersFor(ret.before.writers, ret.path) = {})
               => ret.out = Raised("ValueError")
        /\ (ret.format # None
                /\ DictGet(ret.before.writers, ret.format[1], <<>>) = <<>>)
               => ret.out = Raised("KeyError")
        /\ IsRaised(ret.out) => registry.writers = ret.before.writers

\* the dimension that the tables give each of the tokens
TableDimensions(tokens) ==
    [i \in DOMAIN tokens |-> first_dimension(tokens[i])]

\* C21 (as claimed): with no dimension given, constructing a Converter of
\* a unit string of several tokens, one of them a key of AMBIGUITIES, does
\* not raise, and gives each token the dimension of the first table that
\* holds it (dimensionless when there is none).
CompoundSkipsAmbiguities ==
    (ret.op = "init" /\ ret.dimension = <<>>) =>
        LET tokens == standardize_units(ret.units)
        IN  (Len(tokens) > 1
                /\ \E i \in DOMAIN tokens : DictHas(AMBIGUITIES, tokens[i]))
            => /\ ~IsRaised(ret.out)
               /\ ret.out.returned.dimension = TableDimensions(tokens)

\* the table of DIMENSIONS that the i-th dimension of a Converter names
TableOf(self, i) ==
    IF self.dimension[i] \in DOMAIN DIMENSIONS.map
    THEN DIMENSIONS.map[self.dimension[i]]
    ELSE DIMENSIONS.map["dimensionless"]

\* the factor a table gives a unit, as a pair of a scale and an offset
FactorOf(table, unit) ==
    IF Len(table.map[unit]) = 2 THEN table.map[unit]
    ELSE <<table.map[unit], ZERO>>

\* the number of tokens that are paired with a dimension of the Converter
Paired(self, tokens) ==
    IF Len(self.dimension) < Len(tokens) THEN Len(self.dimension)
    ELSE Len(tokens)

\* the product of the scales of the first n tokens
RECURSIVE CombinedScale(_, _, _)
CombinedScale(self, tokens, n) ==
    IF n = 0 THEN ONE
    ELSE NumMul(CombinedScale(self, tokens, n - 1),
                FactorOf(TableOf(self, n), tokens[n])[1])

\* the sum of the offsets of the first n tokens
RECURSIVE CombinedOffset(_, _, _)
CombinedOffset(self, tokens, n) ==
    IF n = 0 THEN ZERO
    ELSE NumAdd(CombinedOffset(self, tokens, n - 1),
                FactorOf(TableOf(self, n), tokens[n])[2])

\* (value + target_offset) * source_scale / target_scale - source_offset
Affine(x, ss, so, ts, to) ==
    NumSub(NumDiv(NumMul(NumAdd(x, to), ss), ts), so)

\* a call that converts a number to a non-empty target has returned
Converted ==
    /\ ret.op = "call"
    /\ ret.units # None
    /\ ret.units # Some("")
    /\ ret.value.type = "float"
    /\ ~IsRaised(ret.out)

\* C23: a conversion to a non-empty target returns
\* (value + target_offset) * source_scale / target_scale - source_offset,
\* each scale the product of the scales of the paired factors and each
\* offset the sum of their offsets (0 for a factor that is a plain scale);
\* when both offsets are zero this is value * source_scale / target_scale.
ConversionFormula ==
    Converted =>
        LET self == conv[1]
            target == standardize_units(ret.units)
            ss == CombinedScale(self, self.units, Paired(self, self.units))
            so == CombinedOffset(self, self.units, Paired(self, self.units))
            ts == CombinedScale(self, target, Paired(self, target))
            to == CombinedOffset(self, target, Paired(self, target))
        IN  /\ ret.out = Returned(PyFloat(Affine(ret.value.num, ss, so,
                                                  ts, to)))
            /\ (so = ZERO /\ to = ZERO) =>
                   ret.out = Returned(PyFloat(
                                 NumDiv(NumMul(ret.value.num, ss), ts)))

\* a temperature with a time has been converted to another temperature
\* with another time, the target having an offset
ConversionFormulaWitness ==
    /\ Converted
    /\ made = Some([units |-> Some("K s"), dimension |-> <<>>])
    /\ ret.units = Some("degC min")
    /\ ret.value = PyFloat(Num(5))

\* C24: the tokens of the target are paired with the dimensions of the
\* source by position and the shorter list ends the pairing: a call raises
\* exactly when one of the paired tokens is missing in the table of its
\* position, so the source tokens left without a partner and the target
\* tokens beyond the source raise nothing.
PairingTruncates ==
    (/\ ret.op = "call"
     /\ ret.units # None
     /\ ret.units # Some("")
     /\ ret.value.type = "float") =>
        LET self == conv[1]
            target == standardize_units(ret.units)
        IN  IsRaised(ret.out) <=>
                \E i \in 1..Paired(self, target) :
                    ~DictHas(TableOf(self, i), target[i])

\* a Converter of one token has converted to a target of two tokens, the
\* second of which no table holds
PairingTruncatesWitness ==
    /\ Converted
    /\ made = Some([units |-> Some("m"), dimension |-> <<>>])
    /\ ret.units = Some("km foo")

\* the full names the metric tables are built from, each with its table
FULL_NAMES ==
    << <<"meter", "distance">>, <<"second", "time">>,
       <<"hertz", "frequency">>, <<"kelvin", "temperature">>,
       <<"coulomb", "charge">>, <<"ohm", "resistance">>,
       <<"electronvolt", "energy">>, <<"tesla", "magnetism">>,
       <<"gauss", "magnetism">> >>

\* C30 (as claimed): a Converter of each full name, no dimension given, is
\* constructed, has the dimension of the table built from the name, and
\* the factor the table holds for the name.
FullNamesUsable ==
    \A i \in DOMAIN FULL_NAMES :
        (/\ ret.op = "init"
         /\ ret.dimension = <<>>
         /\ ret.units = Some(FULL_NAMES[i][1])) =>
            /\ ~IsRaised(ret.out)
            /\ ret.out.returned.dimension = <<FULL_NAMES[i][2]>>
            /\ <<ret.out.returned.scalebase, ret.out.returned.scaleoffset>>
                   = FactorOf(DIMENSIONS.map[FULL_NAMES[i][2]],
                              FULL_NAMES[i][1])

\* the dict held under a name once the first n stores are made
RECURSIVE TableAfter(_, _, _, _)
TableAfter(name, built, stores, n) ==
    IF n = 0 THEN built
    ELSE IF stores[n].table = name
    THEN DictSet(TableAfter(name, built, stores, n - 1),
                 stores[n].key, stores[n].value)
    ELSE TableAfter(name, built, stores, n - 1)

\* C22: DIMENSIONS, each of its tables and AMBIGUITIES are, after any
\* constructions, calls, get_compatible_units calls and standardize_units
\* calls, what _build_all_units left.
TablesReadOnly ==
    /\ TableAfter("AMBIGUITIES", AMBIGUITIES, stored, Len(stored))
           = AMBIGUITIES
    /\ TableAfter("DIMENSIONS", DIMENSIONS, stored, Len(stored)) = DIMENSIONS
    /\ \A k \in DOMAIN DIMENSIONS.map :
           TableAfter(k, DIMENSIONS.map[k], stored, Len(stored))
               = DIMENSIONS.map[k]

\* get_compatible_units has returned on a Converter made with a dimension
\* that is the key of no table, after a call that raised and a call that
\* returned
TablesReadOnlyWitness ==
    /\ ret.op = "compatible"
    /\ ~IsRaised(ret.out)
    /\ made # None
    /\ made[1].dimension = <<"length">>
    /\ seen = {"raised", "returned"}

\* the (prefix, scale) pairs of the long and of the short prefixes
PrefixItems ==
    {DictItems(PREFIX)[i] : i \in DOMAIN DictItems(PREFIX)}
        \cup {DictItems(SHORT_PREFIX)[i] : i \in DOMAIN DictItems(SHORT_PREFIX)}

\* out holds, for each spelling of the family (unit, abbr), bare and under
\* each prefix with each of the joiners, the singular and (except for the
\* abbreviation) the plural key with the scale of the prefix, and no plural
\* of the abbreviation
MetricCrossProduct(out, unit, abbr, joiners) ==
    /\ \A name \in {unit, StrCapitalize(unit), StrLower(unit), abbr} :
         \A pl \in {"", "s"} :
            (pl = "s" => name # abbr) =>
                /\ DictHas(out, name \o pl)
                /\ out.map[name \o pl] = ONE
                /\ \A p \in PrefixItems, j \in joiners :
                      /\ DictHas(out, p[1] \o j \o name \o pl)
                      /\ out.map[p[1] \o j \o name \o pl] = p[2]
    /\ ~DictHas(out, abbr \o "s")
    /\ \A p \in PrefixItems, j \in joiners :
          ~DictHas(out, p[1] \o j \o abbr \o "s")

\* C25 (as claimed): the table built for a metric family holds the cross
\* product of the four spellings, no prefix and each long and short prefix,
\* the joiners space, '*', '_' and none, and singular and plural, each key
\* with the scale of its prefix, and no plural of the abbreviation
MetricTableWithSpaces ==
    ret.op = "build_metric_units" =>
        MetricCrossProduct(ret.out, ret.unit, ret.abbr, {" ", "*", "_", ""})

\* C25 (amended): the table built for a metric family holds the cross
\* product of the four spellings, no prefix and each long and short prefix,
\* the joiners '*', '_' and none, and singular and plural, each key with the
\* scale of its prefix, and no plural of the abbreviation
MetricTable ==
    ret.op = "build_metric_units" =>
        MetricCrossProduct(ret.out, ret.unit, ret.abbr, {"*", "_", ""})

MetricTableWitness ==
    /\ ret.op = "build_metric_units"
    /\ ret.unit = "meter"
    /\ DictHas(ret.out, "milli*meters")
    /\ ret.out.map["milli*meters"] = Dec(1, -3)
    /\ ~DictHas(ret.out, "ms")

\* the keys that the claim names for the families of degrees, the first of
\* each being the key whose factor the others are compared with
DEGREE_FAMILIES ==
    {<<"degC", "°C", "celsius", "Celsius", "degree_celsius">>,
     <<"degF", "°F", "fahrenheit", "Fahrenheit", "degree_fahrenheit">>,
     <<"degR", "°R", "rankine", "Rankine", "degree_rankine">>}

\* C26 (as claimed): in the temperature table every key generated for
\* (kelvin, K) is stored as (scale, 0), and the table holds the keys degC,
\* °C, celsius, Celsius and degree_celsius, and those of Fahrenheit and
\* Rankine, all keys of one family with the same (scale, offset).
TemperatureFamilies ==
    ret.op = "build_all_units" =>
        LET t == ret.out.map["temperature"]
            kelvin == build_metric_units("kelvin", "K")
        IN  /\ \A k \in DOMAIN kelvin.map :
                  DictHas(t, k) /\ t.map[k] = <<kelvin.map[k], ZERO>>
            /\ \A f \in DEGREE_FAMILIES : \A i \in DOMAIN f :
                  DictHas(t, f[i]) /\ t.map[f[i]] = t.map[f[1]]

\* (table, full name, abbreviation, power) of the inverse families
INVERSE_FAMILIES ==
    {<<"Q", "meter", "m", 1>>, <<"sld", "meter", "m", 2>>,
     <<"scattering_volume", "meter", "m", 3>>,
     <<"frequency", "second", "s", 1>>}

\* the four notations of the inverse n-th power of x
InverseNotations(x, n) ==
    {"1/" \o x \o "^" \o IntStr(n), "inv" \o x \o "^" \o IntStr(n),
     x \o "^-" \o IntStr(n), x \o "^{-" \o IntStr(n) \o "}"}

\* t holds the four notations of each key of metric, with its scale to the
\* power -n
HoldsInverses(t, metric, n) ==
    \A x \in DOMAIN metric.map : \A key \in InverseNotations(x, n) :
        /\ DictHas(t, key)
        /\ t.map[key] = NumPow(NumDiv(ONE, metric.map[x]), n)

\* C27: for each inverse family of power n (Q 1, sld 2, scattering_volume
\* 3, frequency from seconds 1) and each key x of scale c of the metric
\* family under it, the table holds 1/x^n, invx^n, x^-n and x^{-n}, each
\* with c to the power -n.
InverseFamilies ==
    ret.op = "build_all_units" =>
        \A f \in INVERSE_FAMILIES :
            HoldsInverses(ret.out.map[f[1]], build_metric_units(f[2], f[3]),
                          f[4])

InverseFamiliesWitness ==
    /\ ret.op = "build_all_units"
    /\ ret.out.map["sld"].map["1/mm^2"] = Dec(1, 6)
    /\ ret.out.map["scattering_volume"].map["nm^{-3}"] = Dec(1, 27)
    /\ ret.out.map["frequency"].map["invms^1"] = Dec(1, 3)

\* C29 (as claimed): for n = 1 (Q), 2 (sld) and 3 (scattering_volume) the
\* factor of 'Å^{-n}', and of its spellings A, Ang and Angstrom, is the
\* factor of Å in the distance table to the power -n.
AngstromConsistent ==
    ret.op = "build_all_units" =>
        \A f \in {<<"Q", 1>>, <<"sld", 2>>, <<"scattering_volume", 3>>} :
            \A a \in {"Å", "A", "Ang", "Angstrom"} :
                ret.out.map[f[1]].map[a \o "^{-" \o IntStr(f[2]) \o "}"]
                    = NumPow(NumDiv(ONE, ret.out.map["distance"].map["Å"]),
                             f[2])

\* unit is one token that none of the rules of the normalizer applies to:
\* the spelling substitutions, the exponent rule, the gluing of prefixes
\* and the multiplication marker, the inverse markers, the punctuation,
\* and the splitting at blanks, '/' and '^' each leave it as it is
Unmatched(unit) ==
    /\ StrSplitBlank(unit) = <<unit>>
    /\ ReSubAll(unit, SPELLINGS) = unit
    /\ SubExponent(unit) = unit
    /\ format_products(unit) = unit
    /\ format_inverses(unit) = unit
    /\ format_punctuation(unit) = unit
    /\ StrSplit(unit, "/") = <<unit>>
    /\ StrSplit(unit, "^") = <<unit>>

\* C28 (as claimed): standardize_units returns a list of tokens for every
\* argument, a string or None, and a string of one token that none of the
\* rules applies to is returned as that one token, unchanged.
NormalizationPassesThrough ==
    ret.op = "standardize" =>
        /\ \A i \in DOMAIN ret.out : ret.out[i] \in STRING
        /\ DOMAIN ret.out = 1..Len(ret.out)
        /\ Unmatched(PyStr(ret.unit)) => ret.out = <<PyStr(ret.unit)>>


====
